---- MODULE Spec2Model ----
(***************************************************************************)
(* The expect engine of ExpectRust: the buffer manager and its compaction  *)
(* policy, the content matchers, and the matching loop of                  *)
(* Session::expect_any, which races reads of the process channel against   *)
(* the timeout and the end of stream.                                      *)
(*                                                                         *)
(* Bytes are small naturals (0 is the NUL byte).  Offsets are 0-based as   *)
(* in the source; sequences are 1-based, so the slice [a, b) of a buffer   *)
(* is SubSeq(buf, a + 1, b).  Time is counted in ticks; the sleep after a   *)
(* would-block read lasts SleepTicks of them, so that a timeout need not   *)
(* be a whole number of sleeps.  The session is modelled with ANSI         *)
(* stripping off (the builder's default).                                  *)
(*                                                                         *)
(* Spec is the matching loop.  SpecFind applies to_matcher and find to     *)
(* patterns and buffers on their own, SpecAnsi does the same for           *)
(* strip_ansi, and SpecTasks follows the session's operations at the grain *)
(* of their blocking tasks and of the reader and writer locks.  SpecBuffer *)
(* drives the buffer manager on its own, and SpecScript is the interpreter *)
(* of Expect scripts.  SpecStrip appends to a buffer that strips,          *)
(* SpecText applies the glob and regex matchers to UTF-8 text, and         *)
(* SpecLive is Spec under the fairness of its scheduler.                   *)
(***************************************************************************)
EXTENDS Integers, Sequences, FiniteSets, TLC

\* ------------------------------------------------------------------ bounds
\* Byte values are 0..MaxByte; one read returns at most MaxChunk bytes; the
\* process emits at most MaxStream bytes; at most MaxCalls calls are made;
\* the configured timeout is at most MaxTimeout ticks and max_buffer_size
\* at most MaxBufferSize.  SpecFind searches patterns of up to MaxPatLen
\* bytes in buffers of up to MaxFindLen bytes; SpecAnsi strips inputs of up
\* to MaxAnsiLen bytes; SpecTasks makes at most MaxWaits wait() calls and
\* keeps at most MaxWrites write tasks alive; SpecBuffer appends at most
\* MaxAppended bytes; SpecScript enters at most MaxLoops loop bodies;
\* SpecText searches texts of up to MaxTextLen bytes.
MaxByte == 1
MaxChunk == 2
MaxStream == 4
MaxCalls == 2
MaxTimeout == 2
MaxBufferSize == 3
MaxPatLen == 3
MaxFindLen == 5
MaxWaits == 2
MaxAnsiLen == 4
MaxAppended == 6
MaxWrites == 2
MaxLoops == 2
MaxTextLen == 4

\* --------------------------------------------------------------- constants
DISCARD_RATIO == 3
NoTimeout == -1
NoDeadline == -1
SleepTicks == 2

\* With a timeout the clock of a call never passes timeout + SleepTicks;
\* without one the would-block sleeps are cut off at the same reading.
MaxTime == MaxTimeout + SleepTicks

Bytes == 0..MaxByte

Max(a, b) == IF a >= b THEN a ELSE b

\* The slice buf[from..to) with 0-based offsets.
Slice(buf, from, to) == SubSeq(buf, from + 1, to)

\* All byte sequences of length lo..hi.
SeqsOfLen(lo, hi) == UNION {[1..n -> Bytes] : n \in lo..hi}

\* -------------------------------------------------------------- strip_ansi
ESC == 27
BEL == 7
LBracket == 91
RBracket == 93
LParen == 40
RParen == 41
Backslash == 92

\* u8::is_ascii_alphabetic
is_ascii_alphabetic(ch) == ch \in 65..90 \/ ch \in 97..122

\* The CSI arm's inner loop from offset i: the offset after the first
\* letter, or the end of the data.
RECURSIVE csi_end(_, _)
csi_end(data, i) ==
    IF i >= Len(data) THEN i
    ELSE IF is_ascii_alphabetic(data[i + 1]) THEN i + 1
    ELSE csi_end(data, i + 1)

\* A variant of the OSC arm's inner loop that takes an ESC for the start of
\* ESC \ without looking whether a byte follows it.
RECURSIVE osc_end_unchecked(_, _)
osc_end_unchecked(data, i) ==
    IF i >= Len(data) THEN i
    ELSE IF data[i + 1] = BEL THEN i + 1
    ELSE IF data[i + 1] = ESC THEN i + 2
    ELSE osc_end_unchecked(data, i + 1)

\* The OSC arm's inner loop from offset i: the offset after the first BEL
\* or ESC \, or the end of the data.
RECURSIVE osc_end(_, _)
osc_end(data, i) ==
    IF i >= Len(data) THEN i
    ELSE IF data[i + 1] = BEL THEN i + 1
    ELSE IF data[i + 1] = ESC /\ i + 1 < Len(data) /\ data[i + 2] = Backslash
         THEN i + 2
    ELSE osc_end(data, i + 1)

\* A variant whose last arm removes the ESC alone and keeps the byte
\* after it.
RECURSIVE strip_from_keep_next(_, _)
strip_from_keep_next(data, i) ==
    IF i >= Len(data) THEN <<>>
    ELSE IF data[i + 1] = ESC /\ i + 1 < Len(data)
         THEN CASE data[i + 2] = LBracket ->
                      strip_from_keep_next(data, csi_end(data, i + 2))
                [] data[i + 2] = RBracket ->
                      strip_from_keep_next(data, osc_end(data, i + 2))
                [] data[i + 2] \in {LParen, RParen} ->
                      IF i + 2 < Len(data)
                      THEN strip_from_keep_next(data, i + 3)
                      ELSE strip_from_keep_next(data, Len(data))
                [] OTHER -> <<data[i + 2]>>
                                \o strip_from_keep_next(data, i + 2)
         ELSE <<data[i + 1]>> \o strip_from_keep_next(data, i + 1)

\* strip_ansi's outer loop from offset i: the bytes pushed to result.
RECURSIVE strip_from(_, _)
strip_from(data, i) ==
    IF i >= Len(data) THEN <<>>
    ELSE IF data[i + 1] = ESC /\ i + 1 < Len(data)
         THEN CASE data[i + 2] = LBracket ->
                      strip_from(data, csi_end(data, i + 2))
                [] data[i + 2] = RBracket ->
                      strip_from(data, osc_end(data, i + 2))
                [] data[i + 2] \in {LParen, RParen} ->
                      IF i + 2 < Len(data) THEN strip_from(data, i + 3)
                      ELSE strip_from(data, Len(data))
                [] OTHER -> strip_from(data, i + 2)
         ELSE <<data[i + 1]>> \o strip_from(data, i + 1)

\* A variant that also removes the BEL bytes outside escape sequences.
strip_ansi_and_bel(data) ==
    SelectSeq(strip_from(data, 0), LAMBDA b : b # BEL)

strip_ansi(data) == strip_from(data, 0)

\* ---------------------------------------------------------------- patterns
Exact(text) == [kind |-> "Exact", text |-> text]
Null == [kind |-> "Null", text |-> <<>>]
Eof == [kind |-> "Eof", text |-> <<>>]
Timeout == [kind |-> "Timeout", text |-> <<>>]
FullBuffer == [kind |-> "FullBuffer", text |-> <<>>]

is_special(p) == p.kind \in {"Eof", "Timeout", "FullBuffer"}

\* ---------------------------------------------------------------- matchers
None == [found |-> FALSE, start |-> 0, end |-> 0]
Some(s, e) == [found |-> TRUE, start |-> s, end |-> e]

\* ExactMatcher::new, the loop that fills the bad-character table: entry
\* i (1-based, the last byte excluded) sets table[pattern[i]] to the
\* distance from i to the pattern's end; later entries overwrite.
RECURSIVE fill_table(_, _, _)
fill_table(pattern, i, table) ==
    IF i > Len(pattern) - 1 THEN table
    ELSE fill_table(pattern, i + 1,
                    [table EXCEPT ![pattern[i]] = Len(pattern) - i])

\* A variant whose default shift is one more than the pattern's length.
bad_char_table_wide(pattern) ==
    fill_table(pattern, 1, [b \in Bytes |-> Len(pattern) + 1])

bad_char_table(pattern) ==
    fill_table(pattern, 1, [b \in Bytes |-> Len(pattern)])

\* ExactMatcher::find, the while loop from position pos.
RECURSIVE exact_scan(_, _, _, _)
exact_scan(pattern, table, buf, pos) ==
    IF pos + Len(pattern) <= Len(buf)
    THEN IF Slice(buf, pos, pos + Len(pattern)) = pattern
         THEN Some(pos, pos + Len(pattern))
         ELSE exact_scan(pattern, table, buf,
                         pos + table[buf[pos + Len(pattern)]])
    ELSE None

ExactMatcher_find(pattern, buf) ==
    IF Len(buf) < Len(pattern) THEN None
    ELSE exact_scan(pattern, bad_char_table(pattern), buf, 0)

\* NullMatcher::find: the first 0x00 byte as a one-byte match.
NullMatcher_find(buf) ==
    LET zeros == {i \in 1..Len(buf) : buf[i] = 0}
    IN IF zeros = {} THEN None
       ELSE LET i == CHOOSE j \in zeros : \A k \in zeros : j <= k
            IN Some(i - 1, i)

\* A variant that builds an exact matcher for every text.
to_matcher_lenient(p) ==
    CASE p.kind \in {"Exact", "Null"} -> "Ok"
      [] OTHER -> "InvalidGlob"

\* Pattern::to_matcher: "Ok" when the matcher is built, else the
\* PatternError (ExactMatcher::new rejects the empty pattern, the special
\* patterns have no matcher).
to_matcher(p) ==
    CASE p.kind = "Exact" -> IF Len(p.text) = 0 THEN "EmptyPattern" ELSE "Ok"
      [] p.kind = "Null" -> "Ok"
      [] OTHER -> "InvalidGlob"

\* Pattern::to_matcher succeeds.
to_matcher_ok(p) == to_matcher(p) = "Ok"

find(p, buf) ==
    IF p.kind = "Exact" THEN ExactMatcher_find(p.text, buf)
    ELSE NullMatcher_find(buf)

\* The matcher list built at the top of expect_any: the declared indices
\* (0-based) of the patterns that are not special and whose matcher could
\* be built, in declared order.
RECURSIVE build_matchers(_, _)
build_matchers(ps, i) ==
    IF i > Len(ps) THEN <<>>
    ELSE IF ~is_special(ps[i]) /\ to_matcher_ok(ps[i])
         THEN <<i - 1>> \o build_matchers(ps, i + 1)
         ELSE build_matchers(ps, i + 1)

has_eof(ps) == \E i \in 1..Len(ps) : ps[i].kind = "Eof"
has_timeout(ps) == \E i \in 1..Len(ps) : ps[i].kind = "Timeout"
has_fullbuffer(ps) == \E i \in 1..Len(ps) : ps[i].kind = "FullBuffer"

\* A variant that yields the index of the last pattern of that kind.
position_last(ps, kind) ==
    (CHOOSE i \in 1..Len(ps) :
        /\ ps[i].kind = kind
        /\ \A j \in (i + 1)..Len(ps) : ps[j].kind # kind) - 1

\* patterns.iter().position(|p| matches!(p, kind)).unwrap(): the 0-based
\* index of the first pattern of that kind.
position(ps, kind) ==
    (CHOOSE i \in 1..Len(ps) :
        /\ ps[i].kind = kind
        /\ \A j \in 1..(i - 1) : ps[j].kind # kind) - 1

\* The for loop over the matchers at the top of each iteration: the first
\* matcher, in declared order, whose find returns a match.
NoWin == [won |-> FALSE, idx |-> 0, start |-> 0, end |-> 0]

RECURSIVE scan_matchers(_, _, _, _)
scan_matchers(ps, ms, k, um) ==
    IF k > Len(ms) THEN NoWin
    ELSE LET m == find(ps[ms[k] + 1], um)
         IN IF m.found
            THEN [won |-> TRUE, idx |-> ms[k], start |-> m.start, end |-> m.end]
            ELSE scan_matchers(ps, ms, k + 1, um)

\* A variant that prefers the match starting at the lowest buffer offset.
first_match_by_offset(ps, um) ==
    LET ms == build_matchers(ps, 1)
        hits == {k \in 1..Len(ms) : find(ps[ms[k] + 1], um).found}
    IN IF hits = {} THEN NoWin
       ELSE LET k == CHOOSE h \in hits : \A g \in hits :
                        \/ find(ps[ms[h] + 1], um).start < find(ps[ms[g] + 1], um).start
                        \/ /\ find(ps[ms[h] + 1], um).start = find(ps[ms[g] + 1], um).start
                           /\ h <= g
                m == find(ps[ms[k] + 1], um)
            IN [won |-> TRUE, idx |-> ms[k], start |-> m.start, end |-> m.end]

first_match(ps, um) == scan_matchers(ps, build_matchers(ps, 1), 1, um)

\* ---------------------------------------------------------- buffer manager
unmatched(buf, mp) == Slice(buf, mp, Len(buf))

\* A variant that leaves out the first byte of the buffer.
before_from_one(buf, pos) ==
    Slice(buf, IF pos > 0 /\ Len(buf) > 0 THEN 1 ELSE 0,
          IF pos <= Len(buf) THEN pos ELSE Len(buf))

before(buf, pos) == Slice(buf, 0, IF pos <= Len(buf) THEN pos ELSE Len(buf))

\* A variant that leaves the last matched byte searchable.
mark_matched_short(end_position) == end_position - 1

mark_matched(end_position) == end_position

\* A variant that always discards max_size / DISCARD_RATIO bytes, whatever
\* the matched position.
compact_by_discard(buf, mp, max_size) ==
    LET keep_from == max_size \div DISCARD_RATIO
    IN IF keep_from > 0 /\ keep_from < Len(buf)
       THEN [buffer |-> Slice(buf, keep_from, Len(buf)),
             matched_position |-> IF mp >= keep_from THEN mp - keep_from ELSE 0]
       ELSE IF keep_from >= Len(buf)
            THEN [buffer |-> <<>>, matched_position |-> 0]
            ELSE [buffer |-> buf, matched_position |-> mp]

\* A variant whose clearing branch leaves the matched position alone.
compact_clear_keeps_position(buf, mp, max_size) ==
    LET discard_amount == max_size \div DISCARD_RATIO
        keep_from == Max(discard_amount, mp)
    IN IF keep_from > 0 /\ keep_from < Len(buf)
       THEN [buffer |-> Slice(buf, keep_from, Len(buf)),
             matched_position |-> IF mp >= keep_from THEN mp - keep_from ELSE 0]
       ELSE IF keep_from >= Len(buf)
            THEN [buffer |-> <<>>, matched_position |-> mp]
            ELSE [buffer |-> buf, matched_position |-> mp]

compact(buf, mp, max_size) ==
    LET discard_amount == max_size \div DISCARD_RATIO
        keep_from == Max(discard_amount, mp)
    IN IF keep_from > 0 /\ keep_from < Len(buf)
       THEN [buffer |-> Slice(buf, keep_from, Len(buf)),
             matched_position |-> IF mp >= keep_from THEN mp - keep_from ELSE 0]
       ELSE IF keep_from >= Len(buf)
            THEN [buffer |-> <<>>, matched_position |-> 0]
            ELSE [buffer |-> buf, matched_position |-> mp]

\* A variant that compacts before every append.
append_always_compacts(buf, mp, max_size, strip, data) ==
    LET data_to_append == IF strip THEN strip_ansi(data) ELSE data
        c == compact(buf, mp, max_size)
    IN [buffer |-> c.buffer \o data_to_append,
        matched_position |-> c.matched_position]

\* BufferManager::append; strip is the manager's strip_ansi flag.
append(buf, mp, max_size, strip, data) ==
    LET data_to_append == IF strip THEN strip_ansi(data) ELSE data
        c == IF Len(buf) + Len(data_to_append) > max_size
             THEN compact(buf, mp, max_size)
             ELSE [buffer |-> buf, matched_position |-> mp]
    IN [buffer |-> c.buffer \o data_to_append,
        matched_position |-> c.matched_position]

\* ----------------------------------------------------------------- results
\* String::from_utf8_lossy: an ASCII byte is its own character, a byte
\* that cannot start a character becomes U+FFFD.
from_utf8_lossy(bytes) ==
    [i \in 1..Len(bytes) |-> IF bytes[i] < 128 THEN bytes[i] ELSE 65533]

\* BufferManager::as_str: the buffer as text, or "" when it is not UTF-8.
as_str(buf) ==
    IF \A i \in 1..Len(buf) : buf[i] < 128 THEN buf ELSE <<>>

NoResult ==
    [status |-> "None", kind |-> "None", pattern_index |-> 0,
     start |-> 0, end |-> 0, info |-> 0, before |-> <<>>,
     matched |-> <<>>, captures |-> <<>>]

\* A variant whose matched text runs on to the end of the buffer.
MatchOk_through_end(idx, s, e, buf) ==
    [status |-> "Ok", kind |-> "Match", pattern_index |-> idx,
     start |-> s, end |-> e, info |-> 0,
     before |-> from_utf8_lossy(before(buf, s)),
     matched |-> from_utf8_lossy(Slice(buf, s, Len(buf))),
     captures |-> <<>>]

\* Ok(MatchResult) of a concrete match; start and end are buffer offsets
\* (the exact and null matchers return no captures).
MatchOk(idx, s, e, buf) ==
    [status |-> "Ok", kind |-> "Match", pattern_index |-> idx,
     start |-> s, end |-> e, info |-> 0,
     before |-> from_utf8_lossy(before(buf, s)),
     matched |-> from_utf8_lossy(Slice(buf, s, e)),
     captures |-> <<>>]

\* Ok(MatchResult) of a special pattern: an empty match at the buffer end.
SpecialOk(kind, ps, buf) ==
    [status |-> "Ok", kind |-> kind, pattern_index |-> position(ps, kind),
     start |-> Len(buf), end |-> Len(buf), info |-> 0,
     before |-> as_str(buf), matched |-> <<>>, captures |-> <<>>]

\* Err(ExpectError); info is FullBuffer's size or Timeout's duration.
Err(kind, info) ==
    [status |-> "Err", kind |-> kind, pattern_index |-> 0,
     start |-> 0, end |-> 0, info |-> info, before |-> <<>>,
     matched |-> <<>>, captures |-> <<>>]

\* A variant that places the Eof result at the matched boundary's origin.
eof_outcome_at_zero(ps, buf) ==
    [status |-> "Ok", kind |-> "Eof", pattern_index |-> position(ps, "Eof"),
     start |-> 0, end |-> 0, info |-> 0, before |-> as_str(buf),
     matched |-> <<>>, captures |-> <<>>]

\* The outcome of the Eof check at the top of the loop.
eof_outcome(ps, buf) == SpecialOk("Eof", ps, buf)

\* A variant in which a requested FullBuffer pattern succeeds.
fullbuffer_outcome_ok(ps, buf) == SpecialOk("FullBuffer", ps, buf)

\* The outcome of the buffer-full check at the top of the loop.
fullbuffer_outcome(ps, buf) == Err("FullBuffer", Len(buf))

\* The outcome of the elapsed-time check at the top of the loop (the
\* timeout is configured there).
elapsed_outcome(ps, buf, t) ==
    IF has_timeout(ps) THEN SpecialOk("Timeout", ps, buf)
    ELSE Err("Timeout", t)

\* A variant that ignores a requested Timeout pattern.
read_timedout_always_err(ps, buf, t) ==
    IF t # NoTimeout THEN Err("Timeout", t) ELSE Err("IoError", 0)

\* The outcome of a read that failed with kind TimedOut: the read's own
\* deadline fired, or the reader returned such an error.
read_timedout_outcome(ps, buf, t) ==
    IF has_timeout(ps) THEN SpecialOk("Timeout", ps, buf)
    ELSE IF t # NoTimeout THEN Err("Timeout", t)
    ELSE Err("IoError", 0)

\* A variant that grants every read the whole timeout.
remaining_timeout_reset(t, start, clock) == t

\* timeout_duration.map(|t| t.saturating_sub(start_time.elapsed()))
remaining_timeout(t, start, clock) ==
    IF t - (clock - start) >= 0 THEN t - (clock - start) ELSE 0

\* ------------------------------------------------------------ call inputs
\* The pattern lists the caller passes to expect_any.
PatternLists ==
    { <<Exact(<<1>>)>>,
      <<Exact(<<1, 1>>), Null>>,
      <<Exact(<<0, 1>>), Exact(<<1>>), Eof>>,
      <<Exact(<<1, 0, 1>>), Timeout>>,
      <<Exact(<<1, 1>>), FullBuffer>>,
      <<Timeout, FullBuffer, Eof, Exact(<<1, 1>>), Eof>>,
      <<Eof>>,
      <<FullBuffer, Timeout, Timeout>>,
      <<Exact(<<>>), Timeout>> }

\* The chunks one read can return (1..MaxChunk bytes).
Chunks == SeqsOfLen(1, MaxChunk)

\* ------------------------------------------------------------------- state
VARIABLES
    buffer,            \* BufferManager.buffer
    matched_position,  \* BufferManager.matched_position
    eof_reached,       \* Session.eof_reached
    timeout,           \* Session.timeout (NoTimeout for None)
    max_buffer_size,   \* Session.max_buffer_size = BufferManager.max_size
    pc,                \* "idle", "loop" (top of the loop), "read", "sleep"
    patterns,          \* the list of the call in flight (or of the last call)
    start_time,        \* start_time of the call in flight
    deadline,          \* when the pending read's timer fires (NoDeadline)
    result,            \* what the last call returned
    now,               \* the clock, counted from the start of the last call
    calls,             \* number of expect_any calls made
    delivered,         \* number of bytes appended to the buffer so far
    lastEnd,           \* the end of the last concrete match, as an offset in the output
    matchFloor,        \* lastEnd as it was when the last call began
    callStart,         \* the clock when the call in flight began
    endedAt,           \* the check or read result that ended the last call
    iter,              \* the conditions seen by the iteration that issued the
                       \* pending read or ended the call
    lateData,          \* the call read data after its first clock tick
    step,              \* how far a function under study has been applied
    arg_pattern,       \* the pattern a matcher is built from
    arg_bytes,         \* the bytes a function is applied to
    ret,               \* what the function returned
    child,             \* Session.child: "Some" or "None"
    read_tasks,        \* the blocking read tasks alive, in the order they
                       \* queue for master_reader: "queued" or "reading"
    write_tasks,       \* the blocking write tasks alive, in the order they
                       \* queue for master_writer: "queued" or "writing"
    discarded,         \* number of bytes returned by reads nobody awaited
    waits,             \* number of wait() calls made
    ast,               \* Script.ast: the block of statements of the script
    frames,            \* the execute_block calls in progress, outermost first
    context,           \* Runtime.context: the procedures defined in scope
    exit_status,       \* Runtime.exit_status
    returned,          \* what Script::execute's execute_block returned
    executed,          \* the statements executed so far, in order
    exitedIn,          \* the kinds of blocks that enclosed the exit executed
    loops              \* number of loop bodies entered

session == <<buffer, matched_position, eof_reached, timeout, max_buffer_size,
             pc, patterns, start_time, deadline, result, now, calls, delivered,
             lastEnd, matchFloor, callStart, endedAt, iter, lateData>>

script == <<ast, frames, context, exit_status, returned, executed, exitedIn,
            loops>>

unit == <<step, arg_pattern, arg_bytes, ret, script>>

tasks == <<child, read_tasks, write_tasks, discarded, waits>>

vars == <<session, unit, tasks>>

config == <<timeout, max_buffer_size>>

NoRet == [matcher |-> "None", m |-> None, bytes |-> <<>>, again |-> <<>>]

\* Option<i32>
NoStatus == [some |-> FALSE, code |-> 0]
SomeStatus(code) == [some |-> TRUE, code |-> code]

\* The value of the future returned by execute_block: pending, Ok(()) or
\* Err(ScriptError); code is the i32 of ScriptError::Exit.
Running == [status |-> "Running", kind |-> "none", code |-> 0]
ScriptOk == [status |-> "Ok", kind |-> "none", code |-> 0]
ScriptErr(kind, code) == [status |-> "Err", kind |-> kind, code |-> code]

\* No script is being executed.
NoScript ==
    /\ ast = <<>>
    /\ frames = <<>>
    /\ context = {}
    /\ exit_status = NoStatus
    /\ returned = Running
    /\ executed = <<>>
    /\ exitedIn = {}
    /\ loops = 0

NoIter == [searched |-> <<>>, eof |-> FALSE, full |-> FALSE, elapsed |-> FALSE]

\* The fields of a new session but for its configuration.
Fresh ==
    /\ buffer = <<>>
    /\ matched_position = 0
    /\ eof_reached = FALSE
    /\ pc = "idle"
    /\ patterns = <<>>
    /\ start_time = 0
    /\ deadline = NoDeadline
    /\ result = NoResult
    /\ now = 0
    /\ calls = 0
    /\ delivered = 0
    /\ lastEnd = 0
    /\ matchFloor = 0
    /\ callStart = 0
    /\ endedAt = "none"
    /\ iter = NoIter
    /\ lateData = FALSE
    /\ child = "Some"
    /\ read_tasks = <<>>
    /\ write_tasks = <<>>
    /\ discarded = 0
    /\ waits = 0

\* A session right after spawn, before any call.
Spawned ==
    /\ timeout \in {NoTimeout} \cup 0..MaxTimeout
    /\ max_buffer_size \in 3..MaxBufferSize
    /\ Fresh

Init ==
    /\ Spawned
    /\ step = "none"
    /\ arg_pattern = Null
    /\ arg_bytes = <<>>
    /\ ret = NoRet
    /\ NoScript

\* The number of output bytes that compaction has removed from the buffer.
Base == delivered - Len(buffer)

\* What the current iteration sees at the top of the loop.
ThisIter ==
    [searched |-> unmatched(buffer, matched_position),
     eof |-> eof_reached,
     full |-> Len(buffer) >= max_buffer_size,
     elapsed |-> timeout # NoTimeout /\ now - start_time >= timeout]

Win == first_match(patterns, unmatched(buffer, matched_position))

\* A variant of the call that starts from a cleared end-of-stream flag.
Call_clears_eof(ps) ==
    /\ pc = "idle"
    /\ calls < MaxCalls
    /\ patterns' = ps
    /\ now' = 0
    /\ start_time' = now'
    /\ callStart' = now'
    /\ calls' = calls + 1
    /\ result' = NoResult
    /\ endedAt' = "none"
    /\ iter' = NoIter
    /\ lateData' = FALSE
    /\ pc' = "loop"
    /\ matchFloor' = lastEnd
    /\ eof_reached' = FALSE
    /\ UNCHANGED <<buffer, matched_position, config, deadline, delivered,
                   lastEnd>>
    /\ UNCHANGED <<unit, tasks>>

\* expect_any up to the loop: build the matchers, take start_time.  Only
\* differences of clock readings are observable (Instant::elapsed), so the
\* clock's origin is moved to the start of the call.
Call(ps) ==
    /\ pc = "idle"
    /\ calls < MaxCalls
    /\ patterns' = ps
    /\ now' = 0
    /\ start_time' = now'
    /\ callStart' = now'
    /\ calls' = calls + 1
    /\ result' = NoResult
    /\ endedAt' = "none"
    /\ iter' = NoIter
    /\ lateData' = FALSE
    /\ pc' = "loop"
    /\ matchFloor' = lastEnd
    /\ UNCHANGED <<buffer, matched_position, eof_reached, config, deadline,
                   delivered, lastEnd>>
    /\ UNCHANGED <<unit, tasks>>

\* The call returns r.
Return(r, how) ==
    /\ result' = r
    /\ endedAt' = how
    /\ pc' = "idle"
    /\ deadline' = NoDeadline

\* Top of the loop: a matcher finds a match.
LoopMatch ==
    /\ pc = "loop"
    /\ Win.won
    /\ LET absolute_start == matched_position + Win.start
           absolute_end == matched_position + Win.end
       IN /\ matched_position' = mark_matched(absolute_end)
          /\ Return(MatchOk(Win.idx, absolute_start, absolute_end, buffer), "match")
          /\ lastEnd' = Base + absolute_end
    /\ iter' = ThisIter
    /\ UNCHANGED <<buffer, eof_reached, config, patterns, start_time, now,
                   calls, delivered, matchFloor, callStart, lateData>>
    /\ UNCHANGED <<unit, tasks>>

\* Top of the loop: no match, end of stream seen and Eof requested.
LoopEof ==
    /\ pc = "loop"
    /\ ~Win.won
    /\ eof_reached /\ has_eof(patterns)
    /\ Return(eof_outcome(patterns, buffer), "eof_check")
    /\ iter' = ThisIter
    /\ UNCHANGED <<buffer, matched_position, eof_reached, config, patterns,
                   start_time, now, calls, delivered, lastEnd, matchFloor, callStart, lateData>>
    /\ UNCHANGED <<unit, tasks>>

\* Top of the loop: the buffer-full check fires.
LoopFullBuffer ==
    /\ pc = "loop"
    /\ ~Win.won
    /\ ~(eof_reached /\ has_eof(patterns))
    /\ Len(buffer) >= max_buffer_size /\ has_fullbuffer(patterns)
    /\ Return(fullbuffer_outcome(patterns, buffer), "fullbuffer_check")
    /\ iter' = ThisIter
    /\ UNCHANGED <<buffer, matched_position, eof_reached, config, patterns,
                   start_time, now, calls, delivered, lastEnd, matchFloor, callStart, lateData>>
    /\ UNCHANGED <<unit, tasks>>

\* Top of the loop: the elapsed-time check fires.
LoopTimeout ==
    /\ pc = "loop"
    /\ ~Win.won
    /\ ~(eof_reached /\ has_eof(patterns))
    /\ ~(Len(buffer) >= max_buffer_size /\ has_fullbuffer(patterns))
    /\ timeout # NoTimeout /\ now - start_time >= timeout
    /\ Return(elapsed_outcome(patterns, buffer, timeout), "elapsed_check")
    /\ iter' = ThisIter
    /\ UNCHANGED <<buffer, matched_position, eof_reached, config, patterns,
                   start_time, now, calls, delivered, lastEnd, matchFloor, callStart, lateData>>
    /\ UNCHANGED <<unit, tasks>>

\* A variant that issues the read without a deadline, as a session without
\* timeout does.
LoopRead_no_deadline ==
    /\ pc = "loop"
    /\ ~Win.won
    /\ ~(eof_reached /\ has_eof(patterns))
    /\ ~(Len(buffer) >= max_buffer_size /\ has_fullbuffer(patterns))
    /\ ~(timeout # NoTimeout /\ now - start_time >= timeout)
    /\ deadline' = NoDeadline
    /\ pc' = "read"
    /\ iter' = ThisIter
    /\ UNCHANGED <<buffer, matched_position, eof_reached, config, patterns,
                   start_time, result, now, calls, delivered, lastEnd, matchFloor,
                   callStart, endedAt, lateData>>
    /\ UNCHANGED <<unit, tasks>>

\* Top of the loop: nothing ends the call, a read is issued with the
\* remaining time as its deadline.
LoopRead ==
    /\ pc = "loop"
    /\ ~Win.won
    /\ ~(eof_reached /\ has_eof(patterns))
    /\ ~(Len(buffer) >= max_buffer_size /\ has_fullbuffer(patterns))
    /\ ~(timeout # NoTimeout /\ now - start_time >= timeout)
    /\ deadline' = IF timeout = NoTimeout THEN NoDeadline
                   ELSE now + remaining_timeout(timeout, start_time, now)
    /\ pc' = "read"
    /\ iter' = ThisIter
    /\ UNCHANGED <<buffer, matched_position, eof_reached, config, patterns,
                   start_time, result, now, calls, delivered, lastEnd, matchFloor,
                   callStart, endedAt, lateData>>
    /\ UNCHANGED <<unit, tasks>>

\* The read returns Ok(n), n > 0: append and loop.
ReadData(data) ==
    /\ pc = "read"
    /\ ~eof_reached
    /\ delivered + Len(data) <= MaxStream
    /\ LET a == append(buffer, matched_position, max_buffer_size, FALSE, data)
       IN /\ buffer' = a.buffer
          /\ matched_position' = a.matched_position
    /\ delivered' = delivered + Len(data)
    /\ lateData' = (lateData \/ now > callStart)
    /\ pc' = "loop"
    /\ iter' = NoIter
    /\ UNCHANGED <<eof_reached, config, patterns, start_time, deadline,
                   result, now, calls, lastEnd, matchFloor, callStart, endedAt>>
    /\ UNCHANGED <<unit, tasks>>

\* The read returns Ok(0): end of stream.
ReadEof ==
    /\ pc = "read"
    /\ eof_reached' = TRUE
    /\ IF has_eof(patterns)
       THEN /\ pc' = "loop"
            /\ iter' = NoIter
            /\ UNCHANGED <<result, endedAt, deadline>>
       ELSE Return(Err("Eof", 0), "read_eof") /\ UNCHANGED iter
    /\ UNCHANGED <<buffer, matched_position, config, patterns, start_time,
                   now, calls, delivered, lastEnd, matchFloor, callStart, lateData>>
    /\ UNCHANGED <<unit, tasks>>

\* The read fails with WouldBlock: sleep, then loop.
ReadWouldBlock ==
    /\ pc = "read"
    /\ pc' = "sleep"
    /\ iter' = NoIter
    /\ UNCHANGED <<buffer, matched_position, eof_reached, config, patterns,
                   start_time, deadline, result, now, calls, delivered,
                   lastEnd, matchFloor, callStart, endedAt, lateData>>
    /\ UNCHANGED <<unit, tasks>>

Sleep ==
    /\ pc = "sleep"
    /\ now + SleepTicks <= MaxTime
    /\ now' = now + SleepTicks
    /\ pc' = "loop"
    /\ UNCHANGED <<buffer, matched_position, eof_reached, config, patterns,
                   start_time, deadline, result, calls, delivered, lastEnd, matchFloor,
                   callStart, endedAt, iter, lateData>>
    /\ UNCHANGED <<unit, tasks>>

\* The read's deadline fires (tokio::time::timeout elapsed).
ReadDeadline ==
    /\ pc = "read"
    /\ deadline # NoDeadline /\ now >= deadline
    /\ Return(read_timedout_outcome(patterns, buffer, timeout), "read_deadline")
    /\ UNCHANGED <<buffer, matched_position, eof_reached, config, patterns,
                   start_time, now, calls, delivered, lastEnd, matchFloor, callStart, iter, lateData>>
    /\ UNCHANGED <<unit, tasks>>

\* The reader itself fails: with kind TimedOut, or with any other kind.
ReadError(kind) ==
    /\ pc = "read"
    /\ IF kind = "TimedOut"
       THEN Return(read_timedout_outcome(patterns, buffer, timeout), "read_error")
       ELSE Return(Err("IoError", 0), "read_error")
    /\ UNCHANGED <<buffer, matched_position, eof_reached, config, patterns,
                   start_time, now, calls, delivered, lastEnd, matchFloor, callStart, iter, lateData>>
    /\ UNCHANGED <<unit, tasks>>

\* The timer of the pending read advances, up to the read's deadline (the
\* passing of time is not observable by a read without deadline).
Tick ==
    /\ pc = "read"
    /\ now < MaxTime
    /\ deadline # NoDeadline /\ now < deadline
    /\ now' = now + 1
    /\ UNCHANGED <<buffer, matched_position, eof_reached, config, pc, patterns,
                   start_time, deadline, result, calls, delivered, lastEnd, matchFloor,
                   callStart, endedAt, iter, lateData>>
    /\ UNCHANGED <<unit, tasks>>

Next ==
    \/ \E ps \in PatternLists : Call(ps)
    \/ LoopMatch
    \/ LoopEof
    \/ LoopFullBuffer
    \/ LoopTimeout
    \/ LoopRead
    \/ \E data \in Chunks : ReadData(data)
    \/ ReadEof
    \/ ReadWouldBlock
    \/ Sleep
    \/ ReadDeadline
    \/ \E kind \in {"TimedOut", "Other"} : ReadError(kind)
    \/ Tick

Spec == Init /\ [][Next]_vars

\* ------------------------------------------- the matching loop, scheduled
\* A session with a finite timeout whose process may go on producing
\* output without end: past the MaxStream bytes that delivered counts, a
\* read returns one more byte at a time.
InitLive ==
    /\ Init
    /\ timeout # NoTimeout

\* The read returns Ok(1) past the counted output: append and loop.
ReadMore(data) ==
    /\ pc = "read"
    /\ ~eof_reached
    /\ delivered = MaxStream
    /\ LET a == append(buffer, matched_position, max_buffer_size, FALSE, data)
       IN /\ buffer' = a.buffer
          /\ matched_position' = a.matched_position
    /\ lateData' = (lateData \/ now > callStart)
    /\ pc' = "loop"
    /\ iter' = NoIter
    /\ UNCHANGED <<eof_reached, config, patterns, start_time, deadline,
                   result, now, calls, delivered, lastEnd, matchFloor,
                   callStart, endedAt>>
    /\ UNCHANGED <<unit, tasks>>

\* The lists expected: without special patterns, with Timeout, and with
\* all three.
LivePatternLists ==
    {<<Exact(<<1>>)>>,
     <<Exact(<<1, 0, 1>>), Timeout>>,
     <<Timeout, FullBuffer, Eof, Exact(<<1, 1>>), Eof>>}

\* The steps of the session's first call.
NextLive ==
    \/ \E ps \in LivePatternLists : calls = 0 /\ Call(ps)
    \/ LoopMatch
    \/ LoopEof
    \/ LoopFullBuffer
    \/ LoopTimeout
    \/ LoopRead
    \/ \E data \in Chunks : ReadData(data)
    \/ \E b \in Bytes : ReadMore(<<b>>)
    \/ ReadEof
    \/ ReadWouldBlock
    \/ Sleep
    \/ ReadDeadline
    \/ \E kind \in {"TimedOut", "Other"} : ReadError(kind)
    \/ Tick

\* The synchronous code at the top of the loop runs on.
LoopStep ==
    \/ LoopMatch
    \/ LoopEof
    \/ LoopFullBuffer
    \/ LoopTimeout
    \/ LoopRead

\* The task is polled whenever it can go on; the runtime's timers fire
\* (the sleep and the read's timeout); and time does not stand still over
\* infinitely many reads.  Nothing is assumed of the reader: a pending read
\* need never return.
SpecLive ==
    /\ InitLive
    /\ [][NextLive]_vars
    /\ WF_vars(LoopStep)
    /\ WF_vars(Sleep)
    /\ WF_vars(ReadDeadline)
    /\ SF_vars(Tick)

\* ------------------------------------------------- the matchers on their own
\* Pattern::exact(text) for every text up to MaxPatLen bytes, the empty one
\* included, and every buffer up to MaxFindLen bytes; the session plays no
\* part.
InitFind ==
    /\ Spawned
    /\ timeout = NoTimeout
    /\ max_buffer_size = MaxBufferSize
    /\ step = "pattern"
    /\ arg_pattern \in {Exact(text) : text \in SeqsOfLen(0, MaxPatLen)}
    /\ arg_bytes \in SeqsOfLen(0, MaxFindLen)
    /\ ret = NoRet
    /\ NoScript

\* pattern.to_matcher()
ToMatcher ==
    /\ step = "pattern"
    /\ ret' = [ret EXCEPT !.matcher = to_matcher(arg_pattern)]
    /\ step' = IF to_matcher(arg_pattern) = "Ok" THEN "matcher" ELSE "failed"
    /\ UNCHANGED <<session, tasks, arg_pattern, arg_bytes, script>>

\* matcher.find(buffer)
Find ==
    /\ step = "matcher"
    /\ ret' = [ret EXCEPT !.m = find(arg_pattern, arg_bytes)]
    /\ step' = "found"
    /\ UNCHANGED <<session, tasks, arg_pattern, arg_bytes, script>>

NextFind ==
    \/ ToMatcher
    \/ Find

SpecFind == InitFind /\ [][NextFind]_vars

\* ------------------------------------------- the buffer manager on its own
\* BufferManager::new(max_size, false) for every max_size up to
\* MaxBufferSize, then any sequence of the calls the session makes on it:
\* append with the data of a read, and mark_matched with the end of a match
\* found in the unmatched region.
InitBuffer ==
    /\ Fresh
    /\ timeout = NoTimeout
    /\ max_buffer_size \in 1..MaxBufferSize
    /\ step = "none"
    /\ arg_pattern = Null
    /\ arg_bytes = <<>>
    /\ ret = NoRet
    /\ NoScript

\* The session variables the buffer manager never touches.
beyond_buffer == <<eof_reached, timeout, max_buffer_size, pc, patterns,
                   start_time, deadline, result, now, calls, lastEnd,
                   matchFloor, callStart, endedAt, iter, lateData>>

\* buffer.append(data)
BufAppend(data) ==
    /\ delivered + Len(data) <= MaxAppended
    /\ LET a == append(buffer, matched_position, max_buffer_size, FALSE, data)
       IN /\ buffer' = a.buffer
          /\ matched_position' = a.matched_position
    /\ delivered' = delivered + Len(data)
    /\ UNCHANGED <<beyond_buffer, unit, tasks>>

\* buffer.mark_matched(absolute_end), absolute_end being the matched
\* position plus the end of a match in the unmatched region.
BufMarkMatched(m_end) ==
    /\ m_end <= Len(unmatched(buffer, matched_position))
    /\ matched_position' = mark_matched(matched_position + m_end)
    /\ UNCHANGED <<buffer, delivered, beyond_buffer, unit, tasks>>

NextBuffer ==
    \/ \E data \in SeqsOfLen(0, MaxChunk) : BufAppend(data)
    \/ \E m_end \in 1..MaxAppended : BufMarkMatched(m_end)

SpecBuffer == InitBuffer /\ [][NextBuffer]_vars

\* ------------------------------------------------- strip_ansi on its own
\* The bytes strip_ansi is studied on: the bytes its arms test for, a
\* letter and a digit.
AnsiBytes == {ESC, BEL, LBracket, RBracket, LParen, Backslash, 109, 49}

InitAnsi ==
    /\ Spawned
    /\ timeout = NoTimeout
    /\ max_buffer_size = MaxBufferSize
    /\ step = "data"
    /\ arg_pattern = Null
    /\ arg_bytes \in UNION {[1..n -> AnsiBytes] : n \in 0..MaxAnsiLen}
    /\ ret = NoRet
    /\ NoScript

\* strip_ansi(data)
StripAnsi ==
    /\ step = "data"
    /\ ret' = [ret EXCEPT !.bytes = strip_ansi(arg_bytes)]
    /\ step' = "stripped"
    /\ UNCHANGED <<session, tasks, arg_pattern, arg_bytes, script>>

\* strip_ansi(strip_ansi(data)): the function applied to its own output.
StripAgain ==
    /\ step = "stripped"
    /\ ret' = [ret EXCEPT !.again = strip_ansi(ret.bytes)]
    /\ step' = "restripped"
    /\ UNCHANGED <<session, tasks, arg_pattern, arg_bytes, script>>

NextAnsi ==
    \/ StripAnsi
    \/ StripAgain

SpecAnsi == InitAnsi /\ [][NextAnsi]_vars

\* ------------------------------------- appends of a buffer that strips
\* A buffer manager with strip_ansi on is handed the data in two chunks:
\* ret.bytes is the chunk appended first, ret.again the one appended next.
AppendFirst(k) ==
    /\ step = "data"
    /\ k <= Len(arg_bytes)
    /\ LET chunk == Slice(arg_bytes, 0, k)
           a == append(buffer, matched_position, max_buffer_size, TRUE, chunk)
       IN /\ buffer' = a.buffer
          /\ matched_position' = a.matched_position
          /\ delivered' = delivered + Len(strip_ansi(chunk))
          /\ ret' = [ret EXCEPT !.bytes = chunk]
    /\ arg_bytes' = Slice(arg_bytes, k, Len(arg_bytes))
    /\ step' = "first"
    /\ UNCHANGED <<beyond_buffer, tasks, arg_pattern, script>>

\* A variant whose stripping carries on across the two chunks.
AppendRest_joined ==
    /\ step = "first"
    /\ LET joined == strip_ansi(ret.bytes \o arg_bytes)
           a == append(<<>>, 0, max_buffer_size, FALSE, joined)
       IN /\ buffer' = a.buffer
          /\ matched_position' = a.matched_position
          /\ delivered' = Len(joined)
    /\ ret' = [ret EXCEPT !.again = arg_bytes]
    /\ arg_bytes' = <<>>
    /\ step' = "appended"
    /\ UNCHANGED <<beyond_buffer, tasks, arg_pattern, script>>

AppendRest ==
    /\ step = "first"
    /\ LET a == append(buffer, matched_position, max_buffer_size, TRUE, arg_bytes)
       IN /\ buffer' = a.buffer
          /\ matched_position' = a.matched_position
          /\ delivered' = delivered + Len(strip_ansi(arg_bytes))
    /\ ret' = [ret EXCEPT !.again = arg_bytes]
    /\ arg_bytes' = <<>>
    /\ step' = "appended"
    /\ UNCHANGED <<beyond_buffer, tasks, arg_pattern, script>>

NextStrip ==
    \/ \E k \in 0..MaxAnsiLen : AppendFirst(k)
    \/ AppendRest

SpecStrip == InitAnsi /\ [][NextStrip]_vars

\* ------------------------------------ the matchers that decode the buffer
\* RegexMatcher and GlobMatcher read the buffer as UTF-8 text.  The texts
\* are made of an ASCII letter, the lead byte 0xC3 and the continuation
\* byte 0xA9 (0xC3 0xA9 is U+00E9), so that they hold multi-byte
\* characters, characters cut short and stray continuation bytes.
Utf8Bytes == {97, 195, 169}
Star == 42
QMark == 63
Dot == 46

Glob(text) == [kind |-> "Glob", text |-> text]
Regex(text) == [kind |-> "Regex", text |-> text]

\* The length of the character that starts with byte b, 0 when b starts
\* none.
utf8_char_width(b) ==
    IF b < 128 THEN 1
    ELSE IF b \in 194..223 THEN 2
    ELSE IF b \in 224..239 THEN 3
    ELSE IF b \in 240..244 THEN 4
    ELSE 0

is_continuation(b) == b \in 128..191

\* std::str::from_utf8(buffer).is_ok(), from offset i on (the narrower
\* ranges of the byte after 0xE0, 0xED, 0xF0 and 0xF4 are left out: the
\* texts hold none of these).
RECURSIVE valid_utf8_from(_, _)
valid_utf8_from(buf, i) ==
    IF i >= Len(buf) THEN TRUE
    ELSE LET w == utf8_char_width(buf[i + 1])
         IN /\ w > 0
            /\ i + w <= Len(buf)
            /\ \A j \in 2..w : is_continuation(buf[i + j])
            /\ valid_utf8_from(buf, i + w)

from_utf8_ok(buf) == valid_utf8_from(buf, 0)

\* str::is_char_boundary
is_char_boundary(text, index) ==
    \/ index = 0
    \/ index = Len(text)
    \/ index < Len(text) /\ ~is_continuation(text[index + 1])

\* What a find comes to: a match, none, or a panic.
Found(m) == [outcome |-> "Some", m |-> m]
NotFound == [outcome |-> "None", m |-> None]
Panic == [outcome |-> "Panic", m |-> None]

\* The compiled glob's is_match: * takes any run of bytes, ? any one byte,
\* every other byte itself (globset matches bytes, the whole of the
\* candidate).
RECURSIVE is_match(_, _)
is_match(glob, candidate) ==
    IF glob = <<>> THEN candidate = <<>>
    ELSE IF Head(glob) = Star
         THEN \E k \in 0..Len(candidate) :
                 is_match(Tail(glob), Slice(candidate, k, Len(candidate)))
    ELSE IF candidate = <<>> THEN FALSE
    ELSE IF Head(glob) = QMark THEN is_match(Tail(glob), Tail(candidate))
    ELSE Head(glob) = Head(candidate) /\ is_match(Tail(glob), Tail(candidate))

\* GlobMatcher::find's two loops from the pair (start, end): &text[start..end]
\* is taken before is_match is asked, and panics unless both offsets are
\* character boundaries.
RECURSIVE glob_scan(_, _, _, _)
glob_scan(glob, text, start, end) ==
    IF start >= Len(text) THEN NotFound
    ELSE IF end > Len(text) THEN glob_scan(glob, text, start + 1, start + 2)
    ELSE IF ~(is_char_boundary(text, start) /\ is_char_boundary(text, end))
         THEN Panic
    ELSE IF is_match(glob, Slice(text, start, end))
         THEN Found(Some(start, end))
    ELSE glob_scan(glob, text, start, end + 1)

GlobMatcher_find(glob, buf) ==
    IF ~from_utf8_ok(buf) THEN NotFound
    ELSE glob_scan(glob, buf, 0, 1)

\* The offset at which a match of the regex that starts at offset i of the
\* text ends, -1 when none starts there: . takes one character, every other
\* byte of the regex itself.
RECURSIVE regex_end(_, _, _)
regex_end(regex, text, i) ==
    IF regex = <<>> THEN i
    ELSE IF i >= Len(text) THEN -1
    ELSE IF Head(regex) = Dot
         THEN regex_end(Tail(regex), text, i + utf8_char_width(text[i + 1]))
    ELSE IF text[i + 1] = Head(regex) THEN regex_end(Tail(regex), text, i + 1)
    ELSE -1

\* RegexMatcher::find: none when the buffer is not UTF-8, else the leftmost
\* match.
RegexMatcher_find(regex, buf) ==
    IF ~from_utf8_ok(buf) THEN NotFound
    ELSE LET starts == {i \in 0..Len(buf) :
                           /\ is_char_boundary(buf, i)
                           /\ regex_end(regex, buf, i) >= 0}
         IN IF starts = {} THEN NotFound
            ELSE LET i == CHOOSE j \in starts : \A k \in starts : j <= k
                 IN Found(Some(i, regex_end(regex, buf, i)))

\* matcher.find(buffer) of the matcher built from a glob or regex pattern.
find_text(p, buf) ==
    IF p.kind = "Glob" THEN GlobMatcher_find(p.text, buf)
    ELSE RegexMatcher_find(p.text, buf)

TextPatterns ==
    {Glob(<<97>>), Glob(<<Star>>), Glob(<<97, Star>>), Glob(<<QMark, 97>>),
     Glob(<<195, 169>>),
     Regex(<<97>>), Regex(<<97, 97>>), Regex(<<Dot, 97>>),
     Regex(<<195, 169>>)}

\* The process's whole output, up to MaxTextLen bytes, and the pattern
\* expected.
InitText ==
    /\ Spawned
    /\ timeout = NoTimeout
    /\ max_buffer_size = MaxBufferSize
    /\ step = "pattern"
    /\ arg_pattern \in TextPatterns
    /\ arg_bytes \in UNION {[1..n -> Utf8Bytes] : n \in 0..MaxTextLen}
    /\ ret = NoRet
    /\ NoScript

\* The top of the loop when the first k bytes of the output have arrived
\* and none is matched yet: matcher.find(self.buffer.unmatched()).
FindArrived(k) ==
    /\ step = "pattern"
    /\ k <= Len(arg_bytes)
    /\ LET um == Slice(arg_bytes, 0, k)
           f == find_text(arg_pattern, um)
       IN ret' = [ret EXCEPT !.bytes = um, !.matcher = f.outcome, !.m = f.m]
    /\ step' = "first"
    /\ UNCHANGED <<session, tasks, arg_pattern, arg_bytes, script>>

\* No match was found, the loop read on and the rest of the output has
\* arrived: the top of the loop again.
FindWhole ==
    /\ step = "first"
    /\ ret.matcher = "None"
    /\ LET f == find_text(arg_pattern, arg_bytes)
       IN ret' = [ret EXCEPT !.again = arg_bytes, !.matcher = f.outcome,
                             !.m = f.m]
    /\ step' = "whole"
    /\ UNCHANGED <<session, tasks, arg_pattern, arg_bytes, script>>

NextText ==
    \/ \E k \in 0..MaxTextLen : FindArrived(k)
    \/ FindWhole

SpecText == InitText /\ [][NextText]_vars

\* ------------------------------------------- the session's blocking tasks
\* The session's operations at the grain of their blocking tasks and of the
\* two channel locks.  Which check of the matching loop ends a call is
\* Spec's subject and is left open here (EndExpect).

\* The session variables the tasks never touch.
matching == <<eof_reached, patterns, start_time, deadline, now, lastEnd,
              matchFloor, callStart, iter, lateData>>

\* Ok(value) of send, wait and is_alive.
OkValue(kind) ==
    [status |-> "Ok", kind |-> kind, pattern_index |-> 0,
     start |-> 0, end |-> 0, info |-> 0, before |-> <<>>]

InitTasks ==
    /\ Spawned
    /\ timeout \in {NoTimeout, MaxTimeout}
    /\ max_buffer_size = MaxBufferSize
    /\ step = "none"
    /\ arg_pattern = Null
    /\ arg_bytes = <<>>
    /\ ret = NoRet
    /\ NoScript

\* The call in flight awaits the newest read task.
AwaitsRead == pc = "read"

\* The call in flight awaits the newest write task.
AwaitsWrite == pc = "send"

\* expect_any begins.
BeginExpect ==
    /\ pc = "idle"
    /\ calls < MaxCalls
    /\ calls' = calls + 1
    /\ result' = NoResult
    /\ endedAt' = "none"
    /\ pc' = "loop"
    /\ UNCHANGED <<buffer, matched_position, delivered, matching, config,
                   unit, tasks>>

\* One of the checks at the top of the loop ends the call.
EndExpect ==
    /\ pc = "loop"
    /\ pc' = "idle"
    /\ endedAt' = "check"
    /\ UNCHANGED <<buffer, matched_position, delivered, calls, result,
                   matching, config, unit, tasks>>

\* read_with_timeout spawns its blocking task and awaits it.
IssueRead ==
    /\ pc = "loop"
    /\ read_tasks' = Append(read_tasks, "queued")
    /\ pc' = "read"
    /\ UNCHANGED <<buffer, matched_position, delivered, calls, result,
                   endedAt, matching, config, unit, child, write_tasks,
                   discarded, waits>>

\* A variant in which the newest read task gets the reader whether or not
\* another task holds it.
LockReader_shared ==
    /\ read_tasks # <<>>
    /\ read_tasks[Len(read_tasks)] = "queued"
    /\ read_tasks' = [read_tasks EXCEPT ![Len(read_tasks)] = "reading"]
    /\ UNCHANGED <<session, unit, child, write_tasks, discarded, waits>>

\* reader.blocking_lock() returns to the longest-waiting read task once no
\* task holds master_reader.
LockReader ==
    /\ read_tasks # <<>>
    /\ Head(read_tasks) = "queued"
    /\ read_tasks' = <<"reading">> \o Tail(read_tasks)
    /\ UNCHANGED <<session, unit, child, write_tasks, discarded, waits>>

\* reader.read returns to the task the call awaits: n > 0 bytes are
\* appended; Ok(0) and errors (the empty data) append nothing.
ReadReturns(data) ==
    /\ AwaitsRead
    /\ read_tasks = <<"reading">>
    /\ delivered + discarded + Len(data) <= MaxStream
    /\ read_tasks' = <<>>
    /\ IF data = <<>>
       THEN UNCHANGED <<buffer, matched_position, delivered>>
       ELSE LET a == append(buffer, matched_position, max_buffer_size, FALSE, data)
            IN /\ buffer' = a.buffer
               /\ matched_position' = a.matched_position
               /\ delivered' = delivered + Len(data)
    /\ pc' = "loop"
    /\ UNCHANGED <<calls, result, endedAt, matching, config, unit, child,
                   write_tasks, discarded, waits>>

\* tokio::time::timeout fires first: the call ends, the JoinHandle is
\* dropped and the blocking task lives on.
ReadTimedOut ==
    /\ AwaitsRead
    /\ timeout # NoTimeout
    /\ result' = read_timedout_outcome(patterns, buffer, timeout)
    /\ endedAt' = "read_deadline"
    /\ pc' = "idle"
    /\ UNCHANGED <<buffer, matched_position, delivered, calls, matching,
                   config, unit, tasks>>

\* A variant that appends what an abandoned read returns.
AbandonedReturns_kept(data) ==
    /\ read_tasks # <<>>
    /\ Head(read_tasks) = "reading"
    /\ ~(AwaitsRead /\ Len(read_tasks) = 1)
    /\ delivered + discarded + Len(data) <= MaxStream
    /\ read_tasks' = Tail(read_tasks)
    /\ discarded' = discarded + Len(data)
    /\ buffer' = buffer \o data
    /\ UNCHANGED <<matched_position, eof_reached, config, pc, patterns,
                   start_time, deadline, result, now, calls, delivered,
                   lastEnd, matchFloor, callStart, endedAt, iter, lateData,
                   unit, child, write_tasks, waits>>

\* reader.read returns to a task whose call has ended: the closure's
\* result is dropped with the task.
AbandonedReturns(data) ==
    /\ read_tasks # <<>>
    /\ Head(read_tasks) = "reading"
    /\ ~(AwaitsRead /\ Len(read_tasks) = 1)
    /\ delivered + discarded + Len(data) <= MaxStream
    /\ read_tasks' = Tail(read_tasks)
    /\ discarded' = discarded + Len(data)
    /\ UNCHANGED <<session, unit, child, write_tasks, waits>>

\* send spawns its blocking task and awaits it.
Send ==
    /\ pc = "idle"
    /\ Len(write_tasks) < MaxWrites
    /\ write_tasks' = Append(write_tasks, "queued")
    /\ result' = NoResult
    /\ endedAt' = "none"
    /\ pc' = "send"
    /\ UNCHANGED <<buffer, matched_position, delivered, calls, matching,
                   config, unit, child, read_tasks, discarded, waits>>

\* A variant in which reads and writes share one lock.
LockWriter_shared ==
    /\ write_tasks # <<>>
    /\ Head(write_tasks) = "queued"
    /\ \A i \in 1..Len(read_tasks) : read_tasks[i] # "reading"
    /\ write_tasks' = <<"writing">> \o Tail(write_tasks)
    /\ UNCHANGED <<session, unit, child, read_tasks, discarded, waits>>

\* writer.blocking_lock() returns to the longest-waiting write task once
\* no task holds master_writer.
LockWriter ==
    /\ write_tasks # <<>>
    /\ Head(write_tasks) = "queued"
    /\ write_tasks' = <<"writing">> \o Tail(write_tasks)
    /\ UNCHANGED <<session, unit, child, read_tasks, discarded, waits>>

\* write_all and flush return; send returns when it awaits this task.
WriteReturns(ok) ==
    /\ write_tasks # <<>>
    /\ Head(write_tasks) = "writing"
    /\ write_tasks' = Tail(write_tasks)
    /\ IF AwaitsWrite /\ Len(write_tasks) = 1
       THEN /\ result' = IF ok THEN OkValue("Sent") ELSE Err("IoError", 0)
            /\ endedAt' = "send"
            /\ pc' = "idle"
       ELSE UNCHANGED <<result, endedAt, pc>>
    /\ UNCHANGED <<buffer, matched_position, delivered, calls, matching,
                   config, unit, child, read_tasks, discarded, waits>>

\* The caller drops the future of send before it completes (an async
\* caller may do so at any await); the blocking task lives on.
DropSend ==
    /\ AwaitsWrite
    /\ pc' = "idle"
    /\ endedAt' = "dropped"
    /\ UNCHANGED <<buffer, matched_position, delivered, calls, result,
                   matching, config, unit, tasks>>

\* A variant that borrows the handle instead of taking it.
Wait_borrowed ==
    /\ pc = "idle"
    /\ waits < MaxWaits
    /\ waits' = waits + 1
    /\ child' = child
    /\ endedAt' = "wait"
    /\ IF child = "None"
       THEN result' = Err("ProcessExited", 0) /\ pc' = "idle"
       ELSE result' = NoResult /\ pc' = "wait"
    /\ UNCHANGED <<buffer, matched_position, delivered, calls, matching,
                   config, unit, read_tasks, write_tasks, discarded>>

\* wait(): self.child.take(), then the blocking child.wait() is awaited.
Wait ==
    /\ pc = "idle"
    /\ waits < MaxWaits
    /\ waits' = waits + 1
    /\ child' = "None"
    /\ endedAt' = "wait"
    /\ IF child = "None"
       THEN result' = Err("ProcessExited", 0) /\ pc' = "idle"
       ELSE result' = NoResult /\ pc' = "wait"
    /\ UNCHANGED <<buffer, matched_position, delivered, calls, matching,
                   config, unit, read_tasks, write_tasks, discarded>>

\* child.wait() returns the exit status or fails.
WaitReturns(ok) ==
    /\ pc = "wait"
    /\ result' = IF ok THEN OkValue("ExitStatus") ELSE Err("IoError", 0)
    /\ pc' = "idle"
    /\ UNCHANGED <<buffer, matched_position, delivered, calls, endedAt,
                   matching, config, unit, tasks>>

\* is_alive(): try_wait on the handle, when there is one.
IsAlive(outcome) ==
    /\ pc = "idle"
    /\ endedAt' = "is_alive"
    /\ result' = IF child = "None" THEN Err("ProcessExited", 0)
                 ELSE IF outcome = "error" THEN Err("IoError", 0)
                 ELSE OkValue(outcome)
    /\ UNCHANGED <<buffer, matched_position, delivered, calls, pc, matching,
                   config, unit, tasks>>

NextTasks ==
    \/ BeginExpect
    \/ EndExpect
    \/ IssueRead
    \/ LockReader
    \/ \E data \in SeqsOfLen(0, MaxChunk) : ReadReturns(data)
    \/ ReadTimedOut
    \/ \E data \in SeqsOfLen(0, MaxChunk) : AbandonedReturns(data)
    \/ Send
    \/ LockWriter
    \/ \E ok \in BOOLEAN : WriteReturns(ok)
    \/ DropSend
    \/ Wait
    \/ \E ok \in BOOLEAN : WaitReturns(ok)
    \/ \E outcome \in {"true", "false", "error"} : IsAlive(outcome)

SpecTasks == InitTasks /\ [][NextTasks]_vars

\* ------------------------------------------------------------------ script
\* The interpreter of Expect scripts.  The recursion of execute_block is
\* kept as the stack frames: a frame is a block being executed, the offset
\* of its next statement, the kind of block it is, and for the body of a
\* procedure the context that the call set aside.  The values of conditions
\* and the results of expect_any are drawn afresh at every evaluation.

\* The operand of exit after parse_exit_stmt: absent, a word that parses as
\* a number, or any other word.
NoCode == [kind |-> "none", n |-> 0]
Number(n) == [kind |-> "number", n |-> n]
Word == [kind |-> "word", n |-> 0]

\* Statement, with the parts of a statement the interpreter branches on.
\* An Option<Block> is the sequence of no block or of one block.
Stmt(op, id, code, name, blocks) ==
    [op |-> op, id |-> id, code |-> code, name |-> name, blocks |-> blocks]
SetStmt(id) == Stmt("set", id, NoCode, "", <<>>)
IfStmt(id, then_block, else_block) ==
    Stmt("if", id, NoCode, "", <<then_block>> \o else_block)
WhileStmt(id, body) == Stmt("while", id, NoCode, "", <<body>>)
ProcStmt(id, name, body) == Stmt("proc", id, NoCode, name, <<body>>)
CallStmt(id, name) == Stmt("call", id, NoCode, name, <<>>)
ExpectStmt(id, actions) == Stmt("expect", id, NoCode, "", actions)
ExitStmt(id, code) == Stmt("exit", id, code, "", <<>>)

I32_MAX == 2147483647
I32_MIN == -I32_MAX - 1

\* `n as i32` for a number without fraction: the cast saturates.
as_i32(n) == IF n > I32_MAX THEN I32_MAX ELSE IF n < I32_MIN THEN I32_MIN ELSE n

\* The code execute_exit computes from its operand.
exit_code(code) == IF code.kind = "number" THEN as_i32(code.n) ELSE 0

\* The scripts executed: an exit at top level, in a loop body, in both
\* branches of a conditional, in an expect action, in a procedure, below all
\* of these at once, without operand, and a script without exit.
Scripts ==
    { <<SetStmt(1), ExitStmt(2, Number(42)), SetStmt(3)>>,
      <<WhileStmt(1, <<SetStmt(2), ExitStmt(3, Number(2)), SetStmt(4)>>),
        SetStmt(5)>>,
      <<IfStmt(1, <<ExitStmt(2, Number(1)), SetStmt(3)>>,
                  << <<ExitStmt(4, Word), SetStmt(5)>> >>),
        SetStmt(6)>>,
      <<ExpectStmt(1, << << <<ExitStmt(2, Number(3)), SetStmt(3)>> >>, <<>> >>),
        SetStmt(4)>>,
      <<ProcStmt(1, "f", <<SetStmt(2), ExitStmt(3, Number(-4)), SetStmt(4)>>),
        CallStmt(5, "f"), SetStmt(6)>>,
      <<ProcStmt(1, "f",
            <<WhileStmt(2,
                <<IfStmt(3,
                    <<ExpectStmt(4,
                        << << <<ExitStmt(5, Number(5)), SetStmt(6)>> >> >>),
                      SetStmt(7)>>,
                    <<>>),
                  SetStmt(8)>>),
              SetStmt(9)>>),
        CallStmt(10, "f"), SetStmt(11)>>,
      <<CallStmt(1, "g"), ExitStmt(2, NoCode)>>,
      <<WhileStmt(1, <<ExpectStmt(2, << <<>>, << <<SetStmt(3)>> >> >>),
                       IfStmt(4, <<ExitStmt(5, Number(0))>>, <<>>)>>),
        ExitStmt(6, Number(7)), SetStmt(7)>>,
      <<ProcStmt(1, "f", <<>>), CallStmt(2, "f"),
        WhileStmt(3, <<SetStmt(4)>>), ExitStmt(5, NoCode), SetStmt(6)>> }

Frame(block, kind, saved) ==
    [block |-> block, at |-> 0, kind |-> kind, saved |-> saved]

\* The frame being executed and its current statement.
Top == frames[Len(frames)]
AtStatement == frames # <<>> /\ Top.at < Len(Top.block)
Current == Top.block[Top.at + 1]

\* The current statement of the innermost frame is done.
advance(fs) == [fs EXCEPT ![Len(fs)].at = @ + 1]

Logged(s) == [id |-> s.id, op |-> s.op, code |-> s.code]

\* Context::get_procedure
get_procedure(ctx, name) ==
    IF \E p \in ctx : p.name = name
    THEN [found |-> TRUE, body |-> (CHOOSE p \in ctx : p.name = name).body]
    ELSE [found |-> FALSE, body |-> <<>>]

\* Context::define_procedure: HashMap::insert replaces a former entry.
define_procedure(ctx, name, body) ==
    {p \in ctx : p.name # name} \cup {[name |-> name, body |-> body]}

\* The frames still executing once a statement has returned an error: every
\* caller hands the error on with `?`, and execute_call returns it as it is.
unwind_to_caller(fs) ==
    IF \E i \in 1..Len(fs) : fs[i].kind = "proc"
    THEN LET i == CHOOSE j \in 1..Len(fs) :
                    /\ fs[j].kind = "proc"
                    /\ \A k \in (j + 1)..Len(fs) : fs[k].kind # "proc"
         IN advance(SubSeq(fs, 1, i - 1))
    ELSE <<>>

unwind(fs) == <<>>

\* The context once the frames fs have shrunk to rest: execute_call puts
\* back the context it set aside, the outermost call last.
restored(fs, rest, ctx) ==
    IF \E i \in (Len(rest) + 1)..Len(fs) : fs[i].kind = "proc"
    THEN fs[CHOOSE i \in (Len(rest) + 1)..Len(fs) :
                /\ fs[i].kind = "proc"
                /\ \A k \in (Len(rest) + 1)..(i - 1) : fs[k].kind # "proc"].saved
    ELSE ctx

\* The current statement returns Err(err).
raise(err) ==
    LET rest == unwind(frames)
    IN /\ frames' = rest
       /\ context' = restored(frames, rest, context)
       /\ returned' = IF rest = <<>> THEN err ELSE returned

InitScript ==
    /\ Fresh
    /\ timeout = NoTimeout
    /\ max_buffer_size = MaxBufferSize
    /\ step = "none"
    /\ arg_pattern = Null
    /\ arg_bytes = <<>>
    /\ ret = NoRet
    /\ ast \in Scripts
    /\ frames = <<Frame(ast, "script", {})>>
    /\ context = {}
    /\ exit_status = NoStatus
    /\ returned = Running
    /\ executed = <<>>
    /\ exitedIn = {}
    /\ loops = 0

beyond_script == <<session, tasks, step, arg_pattern, arg_bytes, ret, ast>>

\* execute_set: the value is evaluated, which fails on an undefined variable.
execute_set(ok) ==
    /\ AtStatement
    /\ Current.op = "set"
    /\ executed' = Append(executed, Logged(Current))
    /\ IF ok
       THEN frames' = advance(frames) /\ UNCHANGED <<context, returned>>
       ELSE raise(ScriptErr("UndefinedVariable", 0))
    /\ UNCHANGED <<exit_status, exitedIn, loops, beyond_script>>

\* execute_if with the condition evaluating to b.
execute_if(b) ==
    /\ AtStatement
    /\ Current.op = "if"
    /\ executed' = Append(executed, Logged(Current))
    /\ frames' =
          IF b
          THEN Append(frames, Frame(Current.blocks[1], "then", {}))
          ELSE IF Len(Current.blocks) = 2
               THEN Append(frames, Frame(Current.blocks[2], "else", {}))
               ELSE advance(frames)
    /\ UNCHANGED <<context, exit_status, returned, exitedIn, loops,
                   beyond_script>>

\* One turn of execute_while's loop with the condition evaluating to b.
execute_while(b) ==
    /\ AtStatement
    /\ Current.op = "while"
    /\ b => loops < MaxLoops
    /\ executed' = Append(executed, Logged(Current))
    /\ frames' = IF b
                 THEN Append(frames, Frame(Current.blocks[1], "body", {}))
                 ELSE advance(frames)
    /\ loops' = IF b THEN loops + 1 ELSE loops
    /\ UNCHANGED <<context, exit_status, returned, exitedIn, beyond_script>>

execute_proc ==
    /\ AtStatement
    /\ Current.op = "proc"
    /\ executed' = Append(executed, Logged(Current))
    /\ context' = define_procedure(context, Current.name, Current.blocks[1])
    /\ frames' = advance(frames)
    /\ UNCHANGED <<exit_status, returned, exitedIn, loops, beyond_script>>

\* execute_call up to the start of the procedure body, which runs in a new
\* context.
execute_call ==
    /\ AtStatement
    /\ Current.op = "call"
    /\ executed' = Append(executed, Logged(Current))
    /\ LET procedure == get_procedure(context, Current.name)
       IN IF procedure.found
          THEN /\ frames' = Append(frames, Frame(procedure.body, "proc", context))
               /\ context' = {}
               /\ UNCHANGED returned
          ELSE raise(ScriptErr("UndefinedProcedure", 0))
    /\ UNCHANGED <<exit_status, exitedIn, loops, beyond_script>>

\* execute_expect: expect_any fails (r = -1) or succeeds with pattern_index r.
execute_expect(r) ==
    /\ AtStatement
    /\ Current.op = "expect"
    /\ r < Len(Current.blocks)
    /\ executed' = Append(executed, Logged(Current))
    /\ IF r = -1
       THEN raise(ScriptErr("ExpectError", 0))
       ELSE /\ frames' = IF Current.blocks[r + 1] # <<>>
                         THEN Append(frames,
                                  Frame(Current.blocks[r + 1][1], "action", {}))
                         ELSE advance(frames)
            /\ UNCHANGED <<context, returned>>
    /\ UNCHANGED <<exit_status, exitedIn, loops, beyond_script>>

execute_exit ==
    /\ AtStatement
    /\ Current.op = "exit"
    /\ executed' = Append(executed, Logged(Current))
    /\ exit_status' = SomeStatus(exit_code(Current.code))
    /\ raise(ScriptErr("Exit", exit_code(Current.code)))
    /\ exitedIn' = {frames[i].kind : i \in 1..Len(frames)}
                     \cup IF Top.at + 1 < Len(Top.block) THEN {"more"} ELSE {}
    /\ UNCHANGED <<loops, beyond_script>>

\* execute_block has run the last statement of its block and returns Ok(()).
block_done ==
    /\ frames # <<>>
    /\ Top.at = Len(Top.block)
    /\ LET rest == SubSeq(frames, 1, Len(frames) - 1)
       IN /\ frames' = IF rest = <<>> \/ Top.kind = "body"
                       THEN rest
                       ELSE advance(rest)
          /\ returned' = IF rest = <<>> THEN ScriptOk ELSE returned
          /\ context' = IF Top.kind = "proc" THEN Top.saved ELSE context
    /\ UNCHANGED <<exit_status, executed, exitedIn, loops, beyond_script>>

NextScript ==
    \/ \E ok \in BOOLEAN : execute_set(ok)
    \/ \E b \in BOOLEAN : execute_if(b)
    \/ \E b \in BOOLEAN : execute_while(b)
    \/ execute_proc
    \/ execute_call
    \/ \E r \in -1..1 : execute_expect(r)
    \/ execute_exit
    \/ block_done

SpecScript == InitScript /\ [][NextScript]_vars

TypeOK ==
    /\ pc \in {"idle", "loop", "read", "sleep"}
    /\ matched_position \in Nat
    /\ eof_reached \in BOOLEAN
    /\ now \in 0..MaxTime

\* ============================================================== properties
IsPrefix(a, b) == Len(a) <= Len(b) /\ SubSeq(b, 1, Len(a)) = a

\* p occurs in the region um (by definition of an occurrence, not by the
\* matchers' search).
Occurs(p, um) ==
    CASE p.kind = "Exact" ->
            /\ Len(p.text) > 0
            /\ \E s \in 0..(Len(um) - Len(p.text)) :
                    Slice(um, s, s + Len(p.text)) = p.text
      [] p.kind = "Null" -> \E i \in 1..Len(um) : um[i] = 0
      [] OTHER -> FALSE

\* The offset of p's leftmost occurrence in um (when it occurs).
Leftmost(p, um) ==
    IF p.kind = "Null"
    THEN (CHOOSE i \in 1..Len(um) :
            um[i] = 0 /\ \A j \in 1..(i - 1) : um[j] # 0) - 1
    ELSE CHOOSE s \in 0..(Len(um) - Len(p.text)) :
            /\ Slice(um, s, s + Len(p.text)) = p.text
            /\ \A r \in 0..(s - 1) : Slice(um, r, r + Len(p.text)) # p.text

\* The declared indices (0-based) of the patterns that occur in um.
OccurringIdx(ps, um) == {i - 1 : i \in {j \in 1..Len(ps) : Occurs(ps[j], um)}}

\* The lowest declared index (0-based) of a pattern of the given kind.
FirstIdx(ps, kind) ==
    CHOOSE i \in 0..(Len(ps) - 1) :
        /\ ps[i + 1].kind = kind
        /\ \A j \in 0..(i - 1) : ps[j + 1].kind # kind

Ended == pc = "idle" /\ result.status # "None"

\* C1: whenever concrete patterns of the list occur in the unmatched region
\* at a loop iteration, the call returns a match whose pattern_index is the
\* lowest declared index among them, whatever the offsets of the occurrences.
C1_DeclaredOrder ==
    LET occ == OccurringIdx(patterns, iter.searched)
    IN occ # {} =>
        /\ Ended
        /\ result.status = "Ok" /\ result.kind = "Match"
        /\ result.pattern_index \in occ
        /\ \A i \in occ : result.pattern_index <= i

\* A match was returned for a pattern although a later-declared pattern
\* occurs at a lower offset of the searched region.
C1_Witness ==
    /\ Ended /\ result.kind = "Match"
    /\ \E j \in OccurringIdx(patterns, iter.searched) :
        /\ j > result.pattern_index
        /\ Leftmost(patterns[j + 1], iter.searched)
             < Leftmost(patterns[result.pattern_index + 1], iter.searched)

\* C2: a compaction triggered by append keeps every unmatched byte: the
\* unmatched region before the append is a prefix of the one after it.
C2_CompactionKeepsUnmatched ==
    [][(pc = "read" /\ delivered' > delivered) =>
        IsPrefix(unmatched(buffer, matched_position),
                 unmatched(buffer', matched_position'))]_vars

\* C3: a call that ends because the configured timeout was detected (by
\* the elapsed-time check or by the read's deadline), no concrete pattern
\* occurring, succeeds with an empty match at Timeout's index if Timeout is
\* in the list and fails with ExpectError::Timeout otherwise.
C3_TimeoutOutcome ==
    (Ended /\ endedAt \in {"elapsed_check", "read_deadline"}
           /\ timeout # NoTimeout) =>
        /\ OccurringIdx(patterns, unmatched(buffer, matched_position)) = {}
        /\ IF has_timeout(patterns)
           THEN /\ result.status = "Ok" /\ result.kind = "Timeout"
                /\ result.pattern_index = FirstIdx(patterns, "Timeout")
                /\ result.start = result.end
           ELSE result.status = "Err" /\ result.kind = "Timeout"

\* The read's deadline fired in a call whose list has Timeout after a
\* concrete pattern.
C3_Witness ==
    /\ Ended /\ endedAt = "read_deadline" /\ timeout # NoTimeout
    /\ result.status = "Ok" /\ result.kind = "Timeout"
    /\ result.pattern_index > 0

\* C4: when end of stream has been seen, no concrete pattern occurs in the
\* unmatched region and Eof is in the list, the call succeeds with an empty
\* match at the buffer end and Eof's index.
C4_EofSuccess ==
    (iter.eof /\ has_eof(patterns)
              /\ OccurringIdx(patterns, iter.searched) = {}) =>
        /\ Ended
        /\ result.status = "Ok" /\ result.kind = "Eof"
        /\ result.pattern_index = FirstIdx(patterns, "Eof")
        /\ result.start = Len(buffer) /\ result.end = Len(buffer)

\* An Eof success on a non-empty buffer, Eof not declared first.
C4_Witness ==
    /\ Ended /\ result.status = "Ok" /\ result.kind = "Eof"
    /\ result.pattern_index > 0
    /\ Len(buffer) > 0

\* C5: an iteration that begins with eof_reached set, no concrete pattern
\* occurring and Eof not in the list ends the call with ExpectError::Eof at
\* that check, no further read being issued.
C5_EofErrorBeforeRead ==
    (iter.eof /\ ~has_eof(patterns)
              /\ OccurringIdx(patterns, iter.searched) = {}) =>
        /\ Ended
        /\ result.status = "Err" /\ result.kind = "Eof"
        /\ endedAt \notin {"read_eof", "read_deadline", "read_error"}

\* C6: when two or more terminal conditions hold at an iteration, the call
\* ends there with the outcome of the first of match, EOF, buffer-full,
\* timeout.
C6_RaceOrder ==
    LET m == OccurringIdx(patterns, iter.searched) # {}
        n == (IF m THEN 1 ELSE 0) + (IF iter.eof THEN 1 ELSE 0)
             + (IF iter.full THEN 1 ELSE 0) + (IF iter.elapsed THEN 1 ELSE 0)
    IN n >= 2 =>
        /\ Ended
        /\ endedAt \in {"match", "eof_check", "fullbuffer_check", "elapsed_check"}
        /\ result.kind = IF m THEN "Match"
                         ELSE IF iter.eof THEN "Eof"
                         ELSE "FullBuffer"

\* C7: with FullBuffer in the list, a call ended by the buffer-full check
\* succeeds with FullBuffer's index.
C7_FullBufferSuccess ==
    (Ended /\ endedAt = "fullbuffer_check" /\ has_fullbuffer(patterns)) =>
        /\ result.status = "Ok"
        /\ result.pattern_index = FirstIdx(patterns, "FullBuffer")

\* C8: without FullBuffer in the list, an iteration that finds the buffer
\* at its maximum size and no concrete pattern occurring ends the call with
\* ExpectError::FullBuffer carrying the buffer size.
C8_FullBufferError ==
    (iter.full /\ ~iter.eof /\ ~has_fullbuffer(patterns)
               /\ OccurringIdx(patterns, iter.searched) = {}) =>
        /\ Ended
        /\ result.status = "Err" /\ result.kind = "FullBuffer"
        /\ result.info = Len(buffer)

\* C9: the deadline of a call is fixed at call start: start_time never
\* moves, every read's deadline is call start plus timeout whatever was
\* read before, no read is pending after that instant (the call outlives
\* it by at most one would-block sleep), and an iteration that finds the
\* time elapsed (and neither a match nor the Eof or buffer-full branch)
\* ends the call with the timeout outcome.
C9_DeadlineFixed ==
    /\ (pc # "idle" /\ timeout # NoTimeout) =>
            /\ start_time = callStart
            /\ now <= callStart + timeout + SleepTicks
            /\ pc = "read" => (deadline = callStart + timeout /\ now <= deadline)
    /\ (iter.elapsed /\ OccurringIdx(patterns, iter.searched) = {}
                     /\ ~(iter.eof /\ has_eof(patterns))
                     /\ ~(iter.full /\ has_fullbuffer(patterns))) =>
            Ended /\ result.kind = "Timeout"

\* A call timed out although it read data after time had passed.
C9_Witness ==
    /\ Ended /\ result.kind = "Timeout"
    /\ endedAt \in {"elapsed_check", "read_deadline"}
    /\ lateData

\* C10: after a concrete match the matched boundary is the match end; the
\* boundary never falls back before the last match's end in the process
\* output; and a match returned by a later call lies at or after the end
\* of the last earlier match in the process output, so no byte is part of
\* two matches.
C10_MatchesDisjoint ==
    /\ (Ended /\ result.kind = "Match") =>
            /\ matched_position = result.end
            /\ matchFloor <= Base + result.start
            /\ result.start <= result.end
            /\ lastEnd = Base + result.end
    /\ lastEnd <= Base + matched_position
    /\ matchFloor <= lastEnd

\* A later call returned a concrete match after the bytes of an earlier
\* match had been compacted away.
C10_Witness ==
    /\ Ended /\ result.kind = "Match"
    /\ matchFloor > 0
    /\ Base >= matchFloor

\* C11: for every successful concrete match, MatchResult.before contains
\* every byte delivered prior to the match start.  The bytes delivered
\* prior to the match start are the Base bytes that compaction removed
\* followed by the buffer up to the match start, so before must hold
\* Base + start characters and end with the buffer's part.
C11_BeforeIsAllPriorOutput ==
    (Ended /\ result.kind = "Match") =>
        /\ Len(result.before) = Base + result.start
        /\ Slice(result.before, Base, Base + result.start)
                = from_utf8_lossy(Slice(buffer, 0, result.start))

\* C12: ExactMatcher.find agrees with naive substring search: for every
\* non-empty pattern and every buffer it returns the lowest offset at which
\* the pattern occurs, with end = start + pattern length, and returns none
\* exactly when the pattern does not occur.
C12_FindIsNaiveSearch ==
    step = "found" =>
        /\ ret.m.found <=> Occurs(arg_pattern, arg_bytes)
        /\ ret.m.found =>
              /\ ret.m.start = Leftmost(arg_pattern, arg_bytes)
              /\ ret.m.end = ret.m.start + Len(arg_pattern.text)

\* A search that has to shift past a mismatch before it finds the pattern.
C12_Witness ==
    /\ step = "found"
    /\ ret.m.found
    /\ ret.m.start > 1
    /\ Len(arg_pattern.text) = MaxPatLen

\* C13: an occurrence of an exact pattern that arrives split across the
\* reads of one expect call is matched once its last byte has been
\* appended.  On the session's first call every buffer byte arrived during
\* the call: when a read's data completes an occurrence that began in the
\* unmatched region (and is not contained in the data alone), the loop's
\* next search finds a match.
C13_SplitOccurrenceFound ==
    [][(pc = "read" /\ calls = 1 /\ delivered' > delivered) =>
        LET um == unmatched(buffer, matched_position)
            data == Slice(buffer', Len(buffer') - (delivered' - delivered),
                          Len(buffer'))
        IN \A i \in 1..Len(patterns) :
              (/\ patterns[i].kind = "Exact"
               /\ Len(patterns[i].text) > 0
               /\ ~Occurs(patterns[i], data)
               /\ Occurs(patterns[i], um \o data))
              => /\ Occurs(patterns[i], unmatched(buffer', matched_position'))
                 /\ first_match(patterns,
                                unmatched(buffer', matched_position')).won
      ]_vars

\* C14: reads and writes take independent locks.  A write task that waits
\* for master_writer can always take it unless another write task holds
\* it, and a running write can always return, whatever the read tasks do
\* (pending or abandoned); a call can always issue its read, and a read
\* task that waits for master_reader can always take it unless another
\* read task holds it, whatever the write tasks do.
C14_LocksIndependent ==
    /\ (write_tasks # <<>> /\ Head(write_tasks) = "queued")
            => ENABLED LockWriter
    /\ (write_tasks # <<>> /\ Head(write_tasks) = "writing")
            => ENABLED WriteReturns(TRUE)
    /\ pc = "loop" => ENABLED IssueRead
    /\ (read_tasks # <<>> /\ Head(read_tasks) = "queued")
            => ENABLED LockReader

\* A send has completed while a read abandoned by a timed-out call still
\* holds the reader.
C14_Witness ==
    /\ read_tasks # <<>>
    /\ Head(read_tasks) = "reading"
    /\ pc = "idle"
    /\ endedAt = "send"
    /\ result = OkValue("Sent")

\* C15: when a call ends at its read's deadline the blocking read task
\* lives on, and when a read task that no call awaits returns, its bytes
\* are dropped: the buffer, the matched boundary and the count of appended
\* bytes stay as they are, so the buffer never holds a byte that an
\* awaited read did not return.
C15_AbandonedReadDiscarded ==
    [][/\ (pc = "read" /\ pc' = "idle") =>
              (read_tasks' = read_tasks /\ read_tasks # <<>>)
       /\ (Len(read_tasks') < Len(read_tasks)
               /\ ~(AwaitsRead /\ Len(read_tasks) = 1)) =>
              /\ buffer' = buffer
              /\ matched_position' = matched_position
              /\ delivered' = delivered
       /\ Len(buffer') <= delivered'
      ]_vars

\* The read abandoned by the first call has returned bytes, the buffer is
\* still empty, and the second call's own read holds the reader.
C15_Witness ==
    /\ calls = 2
    /\ discarded > 0
    /\ buffer = <<>>
    /\ pc = "read"
    /\ read_tasks = <<"reading">>

\* C17: wait() consumes the process handle.  Once wait() has been called
\* (whatever it returned) the handle is gone, an is_alive() call returns
\* ProcessExited, and so does every wait() call after the first.
C17_WaitConsumesHandle ==
    /\ waits >= 1 => child = "None"
    /\ (pc = "idle" /\ endedAt = "is_alive" /\ waits >= 1)
            => result = Err("ProcessExited", 0)
    /\ (pc = "idle" /\ endedAt = "wait" /\ waits >= 2)
            => result = Err("ProcessExited", 0)

\* The second wait() of a session has returned.
C17_Witness ==
    /\ pc = "idle"
    /\ endedAt = "wait"
    /\ waits = 2
    /\ result = Err("ProcessExited", 0)

\* C16: an expect_any call ends only via match, EOF, buffer-full, timeout
\* or a transport error, and on a session without timeout it never ends
\* with a timeout outcome, neither the Timeout error nor a success whose
\* pattern_index points at Timeout.
C16_NoTimeoutWhenUnbounded ==
    Ended =>
        /\ result.kind \in {"Match", "Eof", "FullBuffer", "Timeout", "IoError"}
        /\ timeout = NoTimeout => result.kind # "Timeout"

\* C18: an expect_any call whose list holds a concrete pattern that cannot
\* be converted to a matcher fails with that pattern's construction error
\* before the matching loop starts: such a call is never in the loop, and
\* once ended its result is the construction error.
C18_ConstructionErrorAtBuild ==
    (\E i \in 1..Len(patterns) :
        ~is_special(patterns[i]) /\ to_matcher(patterns[i]) # "Ok") =>
        /\ pc = "idle"
        /\ result.status = "Err"
        /\ \E i \in 1..Len(patterns) :
              ~is_special(patterns[i]) /\ result.kind = to_matcher(patterns[i])

\* C19: Pattern::exact("") builds a pattern, and converting that pattern
\* to a matcher fails with PatternError::EmptyPattern (no matcher is built
\* and nothing is searched).
C19_EmptyExactFailsAtMatcher ==
    arg_pattern = Exact(<<>>) =>
        \/ step = "pattern" /\ ret = NoRet
        \/ step = "failed" /\ ret.matcher = "EmptyPattern" /\ ret.m = None

\* to_matcher has been applied to the empty exact pattern.
C19_Witness ==
    /\ arg_pattern = Exact(<<>>)
    /\ step = "failed"

\* C20: strip_ansi is the identity on every input without an ESC byte: the
\* output equals the input byte for byte.
C20_IdentityWithoutEsc ==
    (step = "stripped" /\ \A i \in 1..Len(arg_bytes) : arg_bytes[i] # ESC)
        => ret.bytes = arg_bytes

\* An input without ESC that holds the other bytes escape sequences are
\* made of.
C20_Witness ==
    /\ step = "stripped"
    /\ \A i \in 1..Len(arg_bytes) : arg_bytes[i] # ESC
    /\ \E i \in 1..Len(arg_bytes) : arg_bytes[i] = LBracket
    /\ \E i \in 1..Len(arg_bytes) : arg_bytes[i] = BEL
    /\ \E i \in 1..Len(arg_bytes) : arg_bytes[i] = 109

\* C21: strip_ansi is idempotent: for every input, stripping the stripped
\* output returns it unchanged.
C21_StripIdempotent ==
    step = "restripped" => ret.again = ret.bytes

\* An input that loses an escape sequence and ends with a lone ESC, which
\* the output keeps, has been stripped twice.
C21_Witness ==
    /\ step = "restripped"
    /\ Len(ret.bytes) > 1
    /\ Len(ret.bytes) < Len(arg_bytes)
    /\ ret.bytes[Len(ret.bytes)] = ESC

\* C22: max_buffer_size is the maximum buffer size: whatever is appended
\* and matched, the buffer is never longer than max_buffer_size.
C22_BufferWithinMax ==
    Len(buffer) <= max_buffer_size

\* C23: in every reachable state of a session the matched boundary is at
\* most the buffer length, so the unmatched slice is always in bounds.
C23_BoundaryWithinBuffer ==
    /\ matched_position >= 0
    /\ matched_position <= Len(buffer)

\* Compaction has removed bytes and the boundary stands at the end of the
\* buffer again.
C23_Witness ==
    /\ Base > 0
    /\ matched_position > 0
    /\ matched_position = Len(buffer)

\* C24: of the read failures only the would-block signal and the read
\* deadline do not end the call with an error of their own: after a
\* would-block the call sleeps and goes on with buffer, boundary and eof
\* flag unchanged; the read deadline ends the call as a timeout; any other
\* failure of the read ends the call at once with an I/O error.
C24_ReadFailures ==
    [][pc = "read" =>
        /\ pc' = "sleep" =>
              /\ buffer' = buffer
              /\ matched_position' = matched_position
              /\ eof_reached' = eof_reached
              /\ result' = NoResult
        /\ (pc' = "idle" /\ endedAt' = "read_deadline") =>
              result'.kind = "Timeout"
        /\ (pc' = "idle" /\ endedAt' = "read_error") =>
              result' = Err("IoError", 0)
      ]_vars

\* C25: an exit statement that has been executed is the last statement the
\* script executes, wherever it stands: the script has ended with
\* ScriptError::Exit, carrying N when the statement is `exit N`, and no
\* block is left executing.
C25_ExitEndsScript ==
    \A i \in 1..Len(executed) :
        executed[i].op = "exit" =>
            /\ i = Len(executed)
            /\ frames = <<>>
            /\ returned.status = "Err"
            /\ returned.kind = "Exit"
            /\ executed[i].code.kind = "number" =>
                    returned.code = executed[i].code.n

\* An exit below a procedure call, a loop body, a conditional and an expect
\* action at once, with statements after it, has ended the script.
C25_Witness ==
    /\ {"script", "proc", "body", "then", "action", "more"} \subseteq exitedIn
    /\ returned = ScriptErr("Exit", 5)
    /\ executed[Len(executed)].op = "exit"

C27_DurationIsElapsed ==
    (/\ Ended
     /\ endedAt \in {"elapsed_check", "read_deadline"}
     /\ result.status = "Err" /\ result.kind = "Timeout") =>
        result.info = now - callStart

\* C28: a success caused by the end of stream or by the timeout reports the
\* index of the first Eof, respectively Timeout, of the list, however many
\* there are; and every success of a call with a single pattern reports
\* pattern_index 0.
C28_FirstOccurrence ==
    (Ended /\ result.status = "Ok") =>
        /\ result.pattern_index \in 0..(Len(patterns) - 1)
        /\ result.kind \in {"Eof", "Timeout"} =>
                /\ patterns[result.pattern_index + 1].kind = result.kind
                /\ \A j \in 1..result.pattern_index :
                        patterns[j].kind # result.kind
        /\ Len(patterns) = 1 => result.pattern_index = 0

\* A success by a special pattern that the list holds twice.
C28_Witness ==
    /\ Ended /\ result.status = "Ok"
    /\ result.kind \in {"Eof", "Timeout"}
    /\ \E j \in 1..Len(patterns) :
            j > result.pattern_index + 1 /\ patterns[j].kind = result.kind

\* The offsets and text a result must carry when its concrete match was
\* found with the matched boundary at mp, and when it is a special success.
ResultFrame(mp) ==
    LET w == first_match(patterns, iter.searched)
    IN IF result.kind = "Match"
       THEN /\ w.won
            /\ result.start = mp + w.start
            /\ result.end = mp + w.end
            /\ result.start <= result.end
            /\ result.end <= Len(buffer)
            /\ result.matched = Slice(buffer, result.start, result.end)
       ELSE /\ result.start = Len(buffer)
            /\ result.end = Len(buffer)
            /\ result.matched = <<>>
            /\ result.captures = <<>>

C30_BeforeIgnoresBoundary ==
    /\ \A pos \in 0..(Len(buffer) + 1) :
            LET n == IF pos <= Len(buffer) THEN pos ELSE Len(buffer)
            IN /\ Len(before(buffer, pos)) = n
               /\ \A i \in 1..n : before(buffer, pos)[i] = buffer[i]
    /\ (Ended /\ result.status = "Ok" /\ result.kind = "Match") =>
            /\ Len(result.before) = result.start
            /\ \A i \in 1..result.start :
                    result.before[i] = from_utf8_lossy(buffer)[i]
            /\ matchFloor > Base => result.start >= matchFloor - Base

\* A second concrete match on a session whose before text holds the bytes
\* of the first match and more.
C30_Witness ==
    /\ Ended /\ result.status = "Ok" /\ result.kind = "Match"
    /\ calls = 2
    /\ matchFloor > Base
    /\ Len(result.before) > matchFloor - Base

\* The bytes the last step appended, and the buffer it appended them to.
Appended == delivered' - delivered
Kept == SubSeq(buffer', 1, Len(buffer') - Appended)

\* The step appended to a buffer too full to take the data as it was.
AppendOverflows ==
    /\ delivered' # delivered
    /\ Len(buffer) + Appended > max_buffer_size

C32_AppendFrame ==
    [][/\ (delivered' # delivered /\ ~AppendOverflows) =>
            /\ Kept = buffer
            /\ matched_position' = matched_position
       /\ delivered' = delivered => buffer' = buffer
      ]_vars

\* A read was appended, without compaction, to a buffer that already held
\* bytes behind and beyond the matched boundary.
C32_Witness ==
    /\ pc = "loop"
    /\ delivered = Len(buffer)
    /\ matched_position > 0
    /\ Len(buffer) > matched_position + 1
    /\ calls = 2

\* What two appends with stripping on must have added, and what stripping
\* the two chunks as one would give.
StrippedApart == strip_ansi(ret.bytes) \o strip_ansi(ret.again)
StrippedWhole == strip_ansi(ret.bytes \o ret.again)

\* The offset at which strip_ansi's scan of data goes on after offset i: past
\* the escape sequence that starts there, or past the one byte it keeps.
scan_next(data, i) ==
    IF data[i + 1] = ESC /\ i + 1 < Len(data)
    THEN CASE data[i + 2] = LBracket -> csi_end(data, i + 2)
           [] data[i + 2] = RBracket -> osc_end(data, i + 2)
           [] data[i + 2] \in {LParen, RParen} ->
                 IF i + 2 < Len(data) THEN i + 3 ELSE Len(data)
           [] OTHER -> i + 2
    ELSE i + 1

\* Offset k lies inside an escape sequence that the scan of data from
\* offset i removes.
RECURSIVE SplitsSequence(_, _, _)
SplitsSequence(data, i, k) ==
    IF i >= k \/ i >= Len(data) THEN FALSE
    ELSE scan_next(data, i) > k \/ SplitsSequence(data, scan_next(data, i), k)

SequenceSplit == SplitsSequence(ret.bytes \o ret.again, 0, Len(ret.bytes))

\* With stripping on, appending a then b adds strip_ansi(a) followed by
\* strip_ansi(b), of which compaction may have removed a head.
AddedPerChunk ==
    /\ delivered = Len(StrippedApart)
    /\ Len(buffer) <= delivered
    /\ buffer = SubSeq(StrippedApart, delivered - Len(buffer) + 1, delivered)
    /\ delivered <= max_buffer_size => buffer = StrippedApart

RECURSIVE scan_rounds(_, _)
scan_rounds(data, i) ==
    IF i >= Len(data) THEN 0
    ELSE 1 + scan_rounds(data, scan_next(data, i))

\* s is t with some of its bytes left out.
RECURSIVE IsSubsequence(_, _)
IsSubsequence(s, t) ==
    IF s = <<>> THEN TRUE
    ELSE IF t = <<>> THEN FALSE
    ELSE IF Head(s) = Head(t) THEN IsSubsequence(Tail(s), Tail(t))
    ELSE IsSubsequence(s, Tail(t))

\* C34: strip_ansi never reads past the end of its input and always
\* terminates: from every offset inside the input one round of its loop
\* moves on by at least one byte and to the end of the input at most (the
\* bytes a round reads lie below the offset it moves on to), so the scan
\* takes at most as many rounds as the input has bytes; and the output is a
\* subsequence of the input, never longer than it.
C34_StripInBounds ==
    step = "stripped" =>
        /\ \A i \in 0..(Len(arg_bytes) - 1) :
              /\ scan_next(arg_bytes, i) > i
              /\ scan_next(arg_bytes, i) <= Len(arg_bytes)
        /\ scan_rounds(arg_bytes, 0) <= Len(arg_bytes)
        /\ IsSubsequence(ret.bytes, arg_bytes)
        /\ Len(ret.bytes) <= Len(arg_bytes)

\* An input that ends inside an OSC sequence, with a lone ESC as its last
\* byte: the sequence is removed up to the end of the input.
C34_Witness ==
    /\ step = "stripped"
    /\ arg_bytes = <<49, ESC, RBracket, ESC>>
    /\ ret.bytes = <<49>>

\* C35: eof_reached, once set, stays set; a read is never pending while it
\* is set and Eof is in the list; and a step taken at the top of the loop
\* with the flag set, Eof in the list and no concrete pattern matching the
\* unmatched region ends the call with the Eof success, the buffer as it
\* was.
C35_EofSticky ==
    [][/\ eof_reached => eof_reached'
       /\ pc' = "read" => ~(eof_reached' /\ has_eof(patterns'))
       /\ (pc = "loop" /\ eof_reached /\ has_eof(patterns) /\ ~Win.won) =>
              /\ pc' = "idle"
              /\ endedAt' = "eof_check"
              /\ result'.status = "Ok" /\ result'.kind = "Eof"
              /\ result'.pattern_index = FirstIdx(patterns, "Eof")
              /\ buffer' = buffer /\ delivered' = delivered
      ]_vars

\* The second call, with a finite timeout, is at the top of its loop for
\* the first time (no read of this call has set a deadline): the flag was
\* set during the first call, Eof is in the list, and the bytes left
\* unmatched match no concrete pattern.
C35_Witness ==
    /\ pc = "loop" /\ calls = 2
    /\ timeout # NoTimeout /\ deadline = NoDeadline
    /\ eof_reached /\ has_eof(patterns)
    /\ unmatched(buffer, matched_position) # <<>>
    /\ ~Win.won

\* The call has ended without a concrete match: with the Eof or Timeout
\* success or with the Timeout, Eof or FullBuffer error.
EndedUnmatched ==
    /\ Ended
    /\ result.kind \in {"Eof", "Timeout", "FullBuffer"}

\* The step that ends a call without a concrete match changes neither the
\* buffer nor the boundary.
C36_EndingFrame ==
    [][(pc # "idle" /\ EndedUnmatched') =>
          /\ buffer' = buffer
          /\ matched_position' = matched_position
      ]_vars

\* C36: a call that ends without a concrete match leaves the boundary where
\* it was and keeps in the buffer the bytes appended during the call.  For
\* the first call of a session, before which nothing was appended or
\* matched: the boundary is 0 and the buffer holds all the bytes delivered.
C36_UnmatchedCallKeepsOutput ==
    (EndedUnmatched /\ calls = 1) =>
        /\ matched_position = 0
        /\ Len(buffer) = delivered

\* The read tasks that execute reader.read, and those no call awaits.
Reading == {i \in 1..Len(read_tasks) : read_tasks[i] = "reading"}
Abandoned == Len(read_tasks) - (IF AwaitsRead THEN 1 ELSE 0)

C37_CallReturns ==
    (timeout # NoTimeout /\ pc # "idle") ~> (pc = "idle")

\* The process went on producing output that did not match until the call
\* ended at its timeout.
C37_Witness ==
    /\ Ended
    /\ timeout > 0
    /\ result.kind = "Timeout"
    /\ delivered = MaxStream /\ calls = 1
    /\ Len(buffer) < delivered

\* The unmatched region the last find was given.
Searched == IF step = "whole" THEN ret.again ELSE ret.bytes

\* C39: GlobMatcher.find returns a match or none, without panicking, for
\* every buffer that is valid UTF-8, multi-byte characters included.
C39_GlobFindNeverPanics ==
    (step \in {"first", "whole"} /\ arg_pattern.kind = "Glob"
                                 /\ from_utf8_ok(Searched)) =>
        ret.matcher # "Panic"

\* The regex occurs in the text, read as UTF-8.
RegexOccurs(regex, text) ==
    /\ from_utf8_ok(text)
    /\ \E i \in 0..Len(text) :
          is_char_boundary(text, i) /\ regex_end(regex, text, i) >= 0

\* Once the whole output has arrived and it is valid UTF-8, the regex that
\* occurs in it is found, whatever part of it had arrived before.
C40_CompletedTextIsSearched ==
    (step = "whole" /\ arg_pattern.kind = "Regex"
                    /\ RegexOccurs(arg_pattern.text, arg_bytes)) =>
        /\ ret.matcher = "Some"
        /\ regex_end(arg_pattern.text, arg_bytes, ret.m.start) = ret.m.end

\* C40: on an unmatched region that is not valid UTF-8 the regex matcher
\* reports no match, not an error; and once the rest of the output has
\* arrived, an occurrence of the regex located after the offending bytes (in
\* a tail of the output that is valid UTF-8) is found.
C40_InvalidUtf8IsTransient ==
    LET invalid == ~from_utf8_ok(ret.bytes)
    IN /\ (step = "first" /\ arg_pattern.kind = "Regex" /\ invalid) =>
              ret.matcher = "None"
       /\ (step = "whole" /\ arg_pattern.kind = "Regex" /\ invalid) =>
              \A k \in 0..Len(arg_bytes) :
                  RegexOccurs(arg_pattern.text,
                              Slice(arg_bytes, k, Len(arg_bytes))) =>
                      ret.matcher = "Some"
====
